---- MODULE Spec2Model ----
(***************************************************************************)
(* Model of the 4D scheduling engine (Scheduling4DModule): the link store, *)
(* the rule store and the timeline engine with its host-scheduled          *)
(* playback loop.                                                          *)
(*                                                                         *)
(* Units. A date is a whole number of date units of DateUnitDays days,     *)
(* real time is whole seconds and playbackSpeed is date units per second,  *)
(* so `deltaSeconds * playbackSpeed` is a whole number of date units.      *)
(***************************************************************************)
EXTENDS Integers, Sequences, FiniteSets, TLC

VARIABLES
  tasks,            \* this.tasks: the loaded task trees (a sequence of roots)
  taskMap,          \* this.taskMap: taskId -> task, over the flattened tree
  entityLinks,      \* this.entityLinks: taskId -> sequence of links
  linkRules,        \* this.linkRules: taskId -> sequence of rules
  timelineState,    \* this.timelineState
  animationFrameId, \* this.animationFrameId (Null or a host handle)
  scheduled,        \* host: pending frame callbacks, handle -> seconds since
                    \*       the `lastTime` of the callback's closure
  notified,         \* the callbacks invoked by the last operation, in order
  lastOp,           \* the last operation of the engine and its arguments
  opParity,         \* parity of the number of operations performed, so that
                    \* an operation that changes nothing is still a step
  world,            \* BIMCore.getInstance().world is not null
  recomputed,       \* the runs of updateVisualization in the last operation:
                    \* the date read and what was handed to the renderer
  period,           \* history of the current Playing period: the date at
                    \* play(), the real seconds since, and whether date and
                    \* speed were left to the ticks
  hook              \* use4D: the React state taskLinks and taskRules

vars == <<tasks, taskMap, entityLinks, linkRules, timelineState,
          animationFrameId, scheduled, notified, lastOp, opParity, world,
          recomputed, period, hook>>

----------------------------------------------------------------------------
(* Bounds of the model *)

MaxDate == 3
MaxSpeed == 2
MaxElapsed == 1
MaxPending == 2
MaxRules == 2
MaxEntities == 2
MaxPeriodSeconds == 2
MaxRecords == 3
\* the length of a date unit, in days
DateUnitDays == 30

(* Program constants *)

\* animationFrameId: number | null = null; host handles are positive
Null == 0
\* endDate: now + 90 days
DefaultWindowDays == 90
\* `now` at construction, as a date
ConstructionDate == 1

Dates == 0..MaxDate
Speeds == 1..MaxSpeed

----------------------------------------------------------------------------
(* Generic helpers *)

\* Map.set
MapSet(m, k, v) == [x \in DOMAIN m \cup {k} |-> IF x = k THEN v ELSE m[x]]

\* a map without one key
MapRemove(m, k) == [x \in DOMAIN m \ {k} |-> m[x]]

EmptyMap == [x \in {} |-> 0]

----------------------------------------------------------------------------
(* Schedule tasks *)

Task(id, s, e, ch) ==
  [taskId |-> id, startDate |-> s, endDate |-> e, children |-> ch]

\* flattenTasks: pre-order traversal of the task trees
RECURSIVE flattenTasks(_)
flattenTasksRootsOnly(ts) == ts
flattenTasks(ts) ==
  IF ts = <<>> THEN <<>>
  ELSE <<Head(ts)>> \o flattenTasks(Head(ts).children) \o flattenTasks(Tail(ts))

\* loadTasks: taskMap.set(task.taskId, task) for every flat task, in order
RECURSIVE BuildTaskMap(_, _)
BuildTaskMap(flat, m) ==
  IF flat = <<>> THEN m
  ELSE BuildTaskMap(Tail(flat), MapSet(m, Head(flat).taskId, Head(flat)))

\* calculateProjectTimeline: the loop that finds minDate
RECURSIVE MinStart(_, _)
MinStart(flat, minDate) ==
  IF flat = <<>> THEN minDate
  ELSE MinStart(Tail(flat),
                IF Head(flat).startDate < minDate
                  THEN Head(flat).startDate ELSE minDate)

\* calculateProjectTimeline: the loop that finds maxDate
RECURSIVE MaxEnd(_, _)
MaxEnd(flat, maxDate) ==
  IF flat = <<>> THEN maxDate
  ELSE MaxEnd(Tail(flat),
              IF Head(flat).endDate > maxDate
                THEN Head(flat).endDate ELSE maxDate)

TimelineEvent(ts) == [kind |-> "onTimelineStateChanged", state |-> ts]
LinksEvent(taskId, links) ==
  [kind |-> "onLinksUpdated", taskId |-> taskId, links |-> links]
TasksEvent(ts) == [kind |-> "onTasksLoaded", tasks |-> ts]

\* calculateProjectTimeline: the timeline state it leaves and what it notifies
calculateProjectTimelineStops(ts, flat) ==
  IF flat = <<>> THEN [state |-> ts, events |-> <<>>]
  ELSE LET minDate == MinStart(flat, flat[1].startDate)
           maxDate == MaxEnd(flat, flat[1].endDate)
           new == [ts EXCEPT !.startDate = minDate, !.endDate = maxDate,
                             !.currentDate = minDate, !.isPlaying = FALSE]
       IN [state |-> new, events |-> <<TimelineEvent(new)>>]
calculateProjectTimelineResets(ts, flat) ==
  LET d == IF flat = <<>> THEN ConstructionDate
           ELSE MinStart(flat, flat[1].startDate)
      new == [ts EXCEPT !.startDate = d, !.currentDate = d,
                        !.endDate = IF flat = <<>> THEN d
                                    ELSE MaxEnd(flat, flat[1].endDate)]
  IN [state |-> new, events |-> <<TimelineEvent(new)>>]
calculateProjectTimeline(ts, flat) ==
  IF Len(flat) = 0 THEN [state |-> ts, events |-> <<>>]
  ELSE LET minDate == MinStart(flat, flat[1].startDate)
           maxDate == MaxEnd(flat, flat[1].endDate)
           new == [ts EXCEPT !.startDate = minDate, !.endDate = maxDate,
                             !.currentDate = minDate]
       IN [state |-> new, events |-> <<TimelineEvent(new)>>]

----------------------------------------------------------------------------
(* Entities and rules offered to the link store *)

\* entity.name is optional
Undefined == "undefined"

Entity(g, x, t, n) == [globalId |-> g, expressId |-> x, type |-> t, name |-> n]

\* the entities of the loaded model: a wall and a door without a name
ModelEntities ==
  { Entity("g1", 1, "IfcWall", "Wall-01"),
    Entity("g2", 2, "IfcDoor", Undefined) }

\* with them, an entity of another model version that has the expressId of
\* the wall
Entities == ModelEntities \cup {Entity("g3", 1, "IfcSlab", "Slab")}

\* the candidate lists handed to applyRulesToEntities
EntityLists ==
  UNION {[1..n -> ModelEntities] : n \in 0..MaxEntities}

TaskIds == {"t1", "t2"}

\* ruleConfig holds only the fields that are present
Rule(id, taskId, ruleType, cfg, active) ==
  [id |-> id, taskId |-> taskId, ruleType |-> ruleType, ruleConfig |-> cfg,
   isActive |-> active]

\* the rules offered to the rule store: two active rules of t1 that both
\* match the wall, and an inactive rule of t2 that matches the door
Rules ==
  { Rule("r1", "t1", "type_filter", [ifcTypes |-> {"IfcWall"}], TRUE),
    Rule("r2", "t1", "name_pattern", [pattern |-> "wall"], TRUE),
    Rule("r3", "t2", "type_filter", [ifcTypes |-> {"IfcDoor"}], FALSE) }

RuleIds == {r.id : r \in Rules}

\* new RegExp(pattern, 'i') throws on these patterns
PatternIsInvalid(pattern) == pattern \in {"[", "("}

\* regex.test(name) for a pattern compiled with the 'i' flag, on the
\* patterns and names of this model
RegexTest(pattern, name) ==
  \/ pattern = ""
  \/ pattern = "wall" /\ name \in {"Wall-01"}
  \/ pattern = "SLAB" /\ name \in {"Slab"}

\* doesEntityMatchRule
doesEntityMatchRuleAnyPattern(entity, rule) ==
  CASE rule.ruleType = "type_filter" ->
         IF "ifcTypes" \in DOMAIN rule.ruleConfig
           THEN entity.type \in rule.ruleConfig.ifcTypes
           ELSE FALSE
    [] rule.ruleType = "name_pattern" ->
         IF \/ entity.name = Undefined \/ entity.name = ""
            \/ "pattern" \notin DOMAIN rule.ruleConfig
           THEN FALSE
           ELSE IF PatternIsInvalid(rule.ruleConfig.pattern) THEN FALSE
                ELSE RegexTest(rule.ruleConfig.pattern, entity.name)
    [] OTHER -> FALSE
doesEntityMatchRule(entity, rule) ==
  CASE rule.ruleType = "type_filter" ->
         IF "ifcTypes" \in DOMAIN rule.ruleConfig
           THEN entity.type \in rule.ruleConfig.ifcTypes
           ELSE FALSE
    [] rule.ruleType = "name_pattern" ->
         IF \/ entity.name = Undefined \/ entity.name = ""
            \/ "pattern" \notin DOMAIN rule.ruleConfig
            \/ rule.ruleConfig.pattern = ""
           THEN FALSE
           ELSE IF PatternIsInvalid(rule.ruleConfig.pattern) THEN FALSE
                ELSE RegexTest(rule.ruleConfig.pattern, entity.name)
    [] rule.ruleType = "property_match" -> FALSE
    [] OTHER -> FALSE

----------------------------------------------------------------------------
(* Link store *)

\* the link linkEntityToTask builds; its id is
\* `link_${taskId}_${expressId}_${Date.now()}`, kept without the time
NewLink(taskId, entity) ==
  [id |-> <<"link", taskId, entity.expressId>>,
   taskId |-> taskId,
   entityGlobalId |-> entity.globalId,
   entityExpressId |-> entity.expressId,
   entityType |-> entity.type,
   entityName |-> entity.name,
   linkType |-> "manual"]

\* linkEntityToTask: `links.some((l) => l.entityExpressId === entity.expressId)`
linkExistsByGlobalId(links, entity) ==
  \E i \in DOMAIN links : links[i].entityGlobalId = entity.globalId
linkExists(links, entity) ==
  \E i \in DOMAIN links : links[i].entityExpressId = entity.expressId

\* linkEntityToTask on a link map: the map it leaves and what it notifies
linkEntityNotifiesAlways(links, taskId, entity) ==
  LET cur == IF taskId \in DOMAIN links THEN links[taskId] ELSE <<>>
      new == IF linkExists(cur, entity) THEN cur
             ELSE Append(cur, NewLink(taskId, entity))
  IN [links |-> MapSet(links, taskId, new),
      events |-> <<LinksEvent(taskId, new)>>]
linkEntity(links, taskId, entity) ==
  LET cur == IF taskId \in DOMAIN links THEN links[taskId] ELSE <<>>
  IN IF ~linkExists(cur, entity)
       THEN LET new == Append(cur, NewLink(taskId, entity))
            IN [links |-> MapSet(links, taskId, new),
                events |-> <<LinksEvent(taskId, new)>>]
       ELSE [links |-> MapSet(links, taskId, cur), events |-> <<>>]

linkEntityToTask(taskId, entity) ==
  LET r == linkEntity(entityLinks, taskId, entity)
  IN /\ entityLinks' = r.links
     /\ notified' = r.events
     /\ opParity' = 1 - opParity
     /\ recomputed' = <<>>
     /\ UNCHANGED world
     /\ lastOp' = [op |-> "linkEntityToTask", taskId |-> taskId,
                   entity |-> entity]
     /\ UNCHANGED <<tasks, taskMap, linkRules, timelineState,
                    animationFrameId, scheduled>>

unlinkEntityFromTaskClears(taskId, entityExpressId) ==
  /\ opParity' = 1 - opParity
  /\ recomputed' = <<>>
  /\ lastOp' = [op |-> "unlinkEntityFromTask", taskId |-> taskId,
                entityExpressId |-> entityExpressId]
  /\ UNCHANGED <<tasks, taskMap, linkRules, timelineState,
                 animationFrameId, scheduled, world>>
  /\ IF taskId \notin DOMAIN entityLinks
       THEN /\ notified' = <<>>
            /\ UNCHANGED entityLinks
       ELSE /\ entityLinks' = MapSet(entityLinks, taskId, <<>>)
            /\ notified' = <<LinksEvent(taskId, <<>>)>>
unlinkEntityFromTask(taskId, entityExpressId) ==
  /\ opParity' = 1 - opParity
  /\ recomputed' = <<>>
  /\ UNCHANGED world
  /\ lastOp' = [op |-> "unlinkEntityFromTask", taskId |-> taskId,
                entityExpressId |-> entityExpressId]
  /\ UNCHANGED <<tasks, taskMap, linkRules, timelineState,
                 animationFrameId, scheduled>>
  /\ IF taskId \notin DOMAIN entityLinks
       THEN /\ notified' = <<>>
            /\ UNCHANGED entityLinks
       ELSE LET Keep(link) == link.entityExpressId # entityExpressId
                filtered == SelectSeq(entityLinks[taskId], Keep)
            IN /\ entityLinks' = MapSet(entityLinks, taskId, filtered)
               /\ notified' = <<LinksEvent(taskId, filtered)>>

addLinkRule(rule) ==
  LET cur == IF rule.taskId \in DOMAIN linkRules
             THEN linkRules[rule.taskId] ELSE <<>>
  IN /\ Len(cur) < MaxRules
     /\ linkRules' = MapSet(linkRules, rule.taskId, Append(cur, rule))
     /\ notified' = <<>>
     /\ opParity' = 1 - opParity
     /\ recomputed' = <<>>
     /\ UNCHANGED world
     /\ lastOp' = [op |-> "addLinkRule", rule |-> rule]
     /\ UNCHANGED <<tasks, taskMap, entityLinks, timelineState,
                    animationFrameId, scheduled>>

removeLinkRuleUnlinks(ruleId) ==
  LET Keep(r) == r.id # ruleId
  IN /\ linkRules' = [t \in DOMAIN linkRules |-> SelectSeq(linkRules[t], Keep)]
     /\ entityLinks' = [t \in DOMAIN entityLinks |-> <<>>]
     /\ notified' = <<>>
     /\ opParity' = 1 - opParity
     /\ recomputed' = <<>>
     /\ lastOp' = [op |-> "removeLinkRule", ruleId |-> ruleId]
     /\ UNCHANGED <<tasks, taskMap, timelineState, animationFrameId,
                    scheduled, world>>
removeLinkRule(ruleId) ==
  LET Keep(r) == r.id # ruleId
  IN /\ linkRules' = [t \in DOMAIN linkRules |-> SelectSeq(linkRules[t], Keep)]
     /\ notified' = <<>>
     /\ opParity' = 1 - opParity
     /\ recomputed' = <<>>
     /\ UNCHANGED world
     /\ lastOp' = [op |-> "removeLinkRule", ruleId |-> ruleId]
     /\ UNCHANGED <<tasks, taskMap, entityLinks, timelineState,
                    animationFrameId, scheduled>>

\* applyRulesToEntities: the inner loop, over the entities, for one rule
RECURSIVE ApplyRule(_, _, _, _)
RECURSIVE ApplyRuleRelinks(_, _, _, _)
ApplyRuleRelinks(acc, taskId, rule, entities) ==
  IF entities = <<>> THEN acc
  ELSE LET r == IF doesEntityMatchRule(Head(entities), rule)
                  THEN linkEntityNotifiesAlways(acc.links, taskId,
                                                Head(entities))
                  ELSE [links |-> acc.links, events |-> <<>>]
       IN ApplyRuleRelinks([links |-> r.links,
                            events |-> acc.events \o r.events],
                           taskId, rule, Tail(entities))
ApplyRule(acc, taskId, rule, entities) ==
  IF entities = <<>> THEN acc
  ELSE LET r == IF doesEntityMatchRule(Head(entities), rule)
                  THEN linkEntity(acc.links, taskId, Head(entities))
                  ELSE [links |-> acc.links, events |-> <<>>]
       IN ApplyRule([links |-> r.links, events |-> acc.events \o r.events],
                    taskId, rule, Tail(entities))

\* applyRulesToEntities: the outer loop, over the rules
RECURSIVE ApplyRules(_, _, _, _)
RECURSIVE ApplyRulesInactiveToo(_, _, _, _)
ApplyRulesInactiveToo(acc, taskId, rules, entities) ==
  IF rules = <<>> THEN acc
  ELSE ApplyRulesInactiveToo(ApplyRule(acc, taskId, Head(rules), entities),
                             taskId, Tail(rules), entities)
ApplyRules(acc, taskId, rules, entities) ==
  IF rules = <<>> THEN acc
  ELSE ApplyRules(IF ~Head(rules).isActive THEN acc
                  ELSE ApplyRule(acc, taskId, Head(rules), entities),
                  taskId, Tail(rules), entities)

applyRulesToEntities(taskId, entities) ==
  LET rules == IF taskId \in DOMAIN linkRules THEN linkRules[taskId] ELSE <<>>
      r == ApplyRules([links |-> entityLinks, events |-> <<>>], taskId, rules,
                      entities)
  IN /\ entityLinks' = r.links
     /\ notified' = r.events
     /\ opParity' = 1 - opParity
     /\ recomputed' = <<>>
     /\ UNCHANGED world
     /\ lastOp' = [op |-> "applyRulesToEntities", taskId |-> taskId]
     /\ UNCHANGED <<tasks, taskMap, linkRules, timelineState,
                    animationFrameId, scheduled>>

----------------------------------------------------------------------------
(* The host's frame scheduler *)

\* requestAnimationFrame: a handle that names no pending callback. Handles
\* are compared only for identity, so the least free one stands for the
\* host's next handle; it also differs from the handle the engine holds.
RequestAnimationFrame(sched, held) ==
  CHOOSE h \in 1..(Cardinality(DOMAIN sched) + 2) :
    /\ h \notin DOMAIN sched
    /\ h # held
    /\ \A g \in 1..(h - 1) : g \in DOMAIN sched \/ g = held

\* cancelAnimationFrame: no effect on a handle that is not pending
CancelAnimationFrame(sched, h) == MapRemove(sched, h)

\* stopAnimation
stopAnimation(afid, sched) ==
  IF afid # Null
    THEN [animationFrameId |-> Null,
          scheduled |-> CancelAnimationFrame(sched, afid)]
    ELSE [animationFrameId |-> afid, scheduled |-> sched]

----------------------------------------------------------------------------
(* Visualization recompute *)

\* opacity is kept in tenths: 0.2 and 1.0
OpacityDim == 2
OpacityFull == 10

\* updateVisualization: the branch taken for one task, with what it hands to
\* applyVisualizationToEntities; `status` names the branch as its comment does
taskStyleStartExclusive(currentDate, task) ==
  IF ~(currentDate > task.startDate)
    THEN [status |-> "not started", visible |-> TRUE,
          opacity |-> OpacityDim, color |-> "0x888888"]
    ELSE IF currentDate >= task.endDate
      THEN [status |-> "completed", visible |-> TRUE,
            opacity |-> OpacityFull, color |-> "0x88ff88"]
      ELSE [status |-> "in progress", visible |-> TRUE,
            opacity |-> OpacityFull, color |-> "0xffff88"]
taskStyle(currentDate, task) ==
  LET isStarted == currentDate >= task.startDate
      isCompleted == currentDate >= task.endDate
  IN IF ~isStarted
       THEN [status |-> "not started", visible |-> TRUE,
             opacity |-> OpacityDim, color |-> "0x888888"]
       ELSE IF isCompleted
         THEN [status |-> "completed", visible |-> TRUE,
               opacity |-> OpacityFull, color |-> "0x88ff88"]
         ELSE [status |-> "in progress", visible |-> TRUE,
               opacity |-> OpacityFull, color |-> "0xffff88"]

\* updateVisualization: nothing without a world; else one call of
\* applyVisualizationToEntities for every key of entityLinks that is the id
\* of a loaded task, with the key's links and the task's style. The calls
\* are kept by task, not in the order of the map.
updateVisualization(w, links, tmap, currentDate) ==
  IF ~w THEN EmptyMap
  ELSE [t \in DOMAIN links \cap DOMAIN tmap |->
          [links |-> links[t], style |-> taskStyle(currentDate, tmap[t])]]

\* one run of updateVisualization, reading currentDate
Recompute(w, links, tmap, currentDate) ==
  [date |-> currentDate,
   handed |-> updateVisualization(w, links, tmap, currentDate)]

\* BIMCore.initialize: creates the world
initialize ==
  /\ ~world
  /\ world' = TRUE
  /\ UNCHANGED <<tasks, taskMap, entityLinks, linkRules, timelineState,
                 animationFrameId, scheduled, notified, lastOp, opParity,
                 recomputed>>

\* no Playing period is under way
NoPeriod == [date |-> 0, seconds |-> 0, steady |-> FALSE, open |-> FALSE]

----------------------------------------------------------------------------
(* State after construction *)

Init ==
  /\ tasks = <<>>
  /\ taskMap = EmptyMap
  /\ entityLinks = EmptyMap
  /\ linkRules = EmptyMap
  /\ timelineState = [currentDate |-> ConstructionDate,
                      startDate |-> ConstructionDate,
                      endDate |-> ConstructionDate
                                    + DefaultWindowDays \div DateUnitDays,
                      isPlaying |-> FALSE,
                      playbackSpeed |-> 1]
  /\ animationFrameId = Null
  /\ scheduled = EmptyMap
  /\ notified = <<>>
  /\ lastOp = [op |-> "constructor"]
  /\ opParity = 0
  /\ world = FALSE
  /\ recomputed = <<>>
  /\ period = NoPeriod
  /\ hook = [taskLinks |-> EmptyMap, taskRules |-> EmptyMap]

----------------------------------------------------------------------------
(* Timeline engine *)

loadTasksDropsLinks(ts) ==
  LET flat == flattenTasks(ts)
      tl == calculateProjectTimeline(timelineState, flat)
  IN /\ tasks' = ts
     /\ taskMap' = BuildTaskMap(flat, EmptyMap)
     /\ timelineState' = tl.state
     /\ notified' = tl.events \o <<TasksEvent(ts)>>
     /\ opParity' = 1 - opParity
     /\ recomputed' = <<>>
     /\ UNCHANGED world
     /\ lastOp' = [op |-> "loadTasks", tasks |-> ts]
     /\ entityLinks' = [t \in DOMAIN entityLinks \cap DOMAIN taskMap' |->
                          entityLinks[t]]
     /\ linkRules' = [t \in DOMAIN linkRules \cap DOMAIN taskMap' |->
                        linkRules[t]]
     /\ UNCHANGED <<animationFrameId, scheduled>>
loadTasks(ts) ==
  LET flat == flattenTasks(ts)
      tl == calculateProjectTimeline(timelineState, flat)
  IN /\ tasks' = ts
     /\ taskMap' = BuildTaskMap(flat, EmptyMap)
     /\ timelineState' = tl.state
     /\ notified' = tl.events \o <<TasksEvent(ts)>>
     /\ opParity' = 1 - opParity
     /\ recomputed' = <<>>
     /\ UNCHANGED world
     /\ lastOp' = [op |-> "loadTasks", tasks |-> ts]
     /\ UNCHANGED <<entityLinks, linkRules, animationFrameId, scheduled>>

setCurrentDateClamps(date) ==
  /\ timelineState' =
       [timelineState EXCEPT !.currentDate =
          IF date > timelineState.endDate THEN timelineState.endDate
          ELSE IF date < timelineState.startDate THEN timelineState.startDate
          ELSE date]
  /\ notified' = <<TimelineEvent(timelineState')>>
  /\ opParity' = 1 - opParity
  /\ recomputed' = <<Recompute(world, entityLinks, taskMap,
                               timelineState'.currentDate)>>
  /\ lastOp' = [op |-> "setCurrentDate", date |-> date]
  /\ UNCHANGED <<tasks, taskMap, entityLinks, linkRules, animationFrameId,
                 scheduled, world>>
setCurrentDate(date) ==
  /\ timelineState' = [timelineState EXCEPT !.currentDate = date]
  /\ notified' = <<TimelineEvent(timelineState')>>
  /\ opParity' = 1 - opParity
  /\ recomputed' = <<Recompute(world, entityLinks, taskMap, date)>>
  /\ UNCHANGED world
  /\ lastOp' = [op |-> "setCurrentDate", date |-> date]
  /\ UNCHANGED <<tasks, taskMap, entityLinks, linkRules, animationFrameId,
                 scheduled>>

setPlaybackSpeed(speed) ==
  /\ timelineState' = [timelineState EXCEPT !.playbackSpeed = speed]
  /\ notified' = <<TimelineEvent(timelineState')>>
  /\ opParity' = 1 - opParity
  /\ recomputed' = <<>>
  /\ UNCHANGED world
  /\ lastOp' = [op |-> "setPlaybackSpeed", speed |-> speed]
  /\ UNCHANGED <<tasks, taskMap, entityLinks, linkRules, animationFrameId,
                 scheduled>>

\* play: `if (this.timelineState.isPlaying) return;`
playReturnsEarlyNever(ts) == FALSE
playReturnsEarly(ts) == ts.isPlaying

\* startAnimation: schedules the first frame of a new loop, whose
\* `lastTime` is the present
startAnimationDropsFrame(afid, sched) ==
  [animationFrameId |-> afid, scheduled |-> sched]
startAnimation(afid, sched) ==
  LET h == RequestAnimationFrame(sched, afid)
  IN [animationFrameId |-> h, scheduled |-> MapSet(sched, h, 0)]

play ==
  /\ playReturnsEarly(timelineState)
       \/ Cardinality(DOMAIN scheduled) < MaxPending
  /\ opParity' = 1 - opParity
  /\ recomputed' = <<>>
  /\ UNCHANGED world
  /\ lastOp' = [op |-> "play"]
  /\ UNCHANGED <<tasks, taskMap, entityLinks, linkRules>>
  /\ IF playReturnsEarly(timelineState)
       THEN /\ notified' = <<>>
            /\ UNCHANGED <<timelineState, animationFrameId, scheduled>>
       ELSE LET start == startAnimation(animationFrameId, scheduled)
            IN /\ timelineState' = [timelineState EXCEPT !.isPlaying = TRUE]
               /\ notified' = <<TimelineEvent(timelineState')>>
               /\ animationFrameId' = start.animationFrameId
               /\ scheduled' = start.scheduled

pause ==
  LET stop == stopAnimation(animationFrameId, scheduled)
  IN /\ timelineState' = [timelineState EXCEPT !.isPlaying = FALSE]
     /\ notified' = <<TimelineEvent(timelineState')>>
     /\ animationFrameId' = stop.animationFrameId
     /\ scheduled' = stop.scheduled
     /\ opParity' = 1 - opParity
     /\ recomputed' = <<>>
     /\ UNCHANGED world
     /\ lastOp' = [op |-> "pause"]
     /\ UNCHANGED <<tasks, taskMap, entityLinks, linkRules>>

resetKeepsPlaying ==
  LET stop == stopAnimation(animationFrameId, scheduled)
  IN /\ timelineState' =
          [timelineState EXCEPT !.currentDate = timelineState.startDate]
     /\ notified' = <<TimelineEvent(timelineState')>>
     /\ animationFrameId' = stop.animationFrameId
     /\ scheduled' = stop.scheduled
     /\ opParity' = 1 - opParity
     /\ recomputed' = <<Recompute(world, entityLinks, taskMap,
                                  timelineState.startDate)>>
     /\ lastOp' = [op |-> "reset"]
     /\ UNCHANGED <<tasks, taskMap, entityLinks, linkRules, world>>
reset ==
  LET stop == stopAnimation(animationFrameId, scheduled)
  IN /\ timelineState' =
          [timelineState EXCEPT !.currentDate = timelineState.startDate,
                                !.isPlaying = FALSE]
     /\ notified' = <<TimelineEvent(timelineState')>>
     /\ animationFrameId' = stop.animationFrameId
     /\ scheduled' = stop.scheduled
     /\ opParity' = 1 - opParity
     /\ recomputed' = <<Recompute(world, entityLinks, taskMap,
                                  timelineState.startDate)>>
     /\ UNCHANGED world
     /\ lastOp' = [op |-> "reset"]
     /\ UNCHANGED <<tasks, taskMap, entityLinks, linkRules>>

\* animate: `if (!this.timelineState.isPlaying) return;`
animateReturnsEarlyNever(ts) == FALSE
animateReturnsEarly(ts) == ~ts.isPlaying

\* animate: `if (newDate > this.timelineState.endDate)`
pastEndInclusive(newDate, endDate) == newDate >= endDate
pastEndNever(newDate, endDate) == FALSE
pastEndByTwo(newDate, endDate) == newDate > endDate + 1
pastEnd(newDate, endDate) == newDate > endDate

\* animate: one run of the frame callback with handle h
animate(h) ==
  /\ h \in DOMAIN scheduled
  /\ UNCHANGED <<tasks, taskMap, entityLinks, linkRules>>
  /\ LET pending == MapRemove(scheduled, h) \* the host has taken h
         ts == timelineState
     IN IF animateReturnsEarly(ts)
          THEN /\ scheduled' = pending
               /\ notified' = <<>>
               /\ opParity' = 1 - opParity
               /\ recomputed' = <<>>
               /\ UNCHANGED world
               /\ lastOp' = [op |-> "animate", ran |-> FALSE,
                             newDate |-> ts.currentDate]
               /\ UNCHANGED <<timelineState, animationFrameId>>
          ELSE LET deltaSeconds == scheduled[h]
                   daysToAdd == deltaSeconds * ts.playbackSpeed
                   newDate == ts.currentDate + daysToAdd
                   clamp == pastEnd(newDate, ts.endDate)
                   \* this.pause()
                   paused == [ts EXCEPT !.isPlaying = FALSE]
                   stop == stopAnimation(animationFrameId, pending)
                   after == IF clamp
                              THEN [paused EXCEPT !.currentDate = ts.endDate]
                              ELSE [ts EXCEPT !.currentDate = newDate]
                   afid == IF clamp THEN stop.animationFrameId
                           ELSE animationFrameId
                   sched == IF clamp THEN stop.scheduled ELSE pending
                   \* this.animationFrameId = requestAnimationFrame(animate)
                   next == startAnimation(afid, sched)
               IN /\ timelineState' = after
                  /\ notified' =
                       (IF clamp THEN <<TimelineEvent(paused)>> ELSE <<>>)
                         \o <<TimelineEvent(after)>>
                  /\ animationFrameId' = next.animationFrameId
                  /\ scheduled' = next.scheduled
                  /\ opParity' = 1 - opParity
                  /\ recomputed' = <<Recompute(world, entityLinks, taskMap,
                                               after.currentDate)>>
                  /\ UNCHANGED world
                  /\ lastOp' = [op |-> "animate", ran |-> TRUE,
                                newDate |-> newDate]

\* real time passes: every pending loop is one second further from its
\* `lastTime`
elapse ==
  /\ DOMAIN scheduled # {}
  /\ \A h \in DOMAIN scheduled : scheduled[h] < MaxElapsed
  /\ scheduled' = [h \in DOMAIN scheduled |-> scheduled[h] + 1]
  /\ UNCHANGED <<tasks, taskMap, entityLinks, linkRules, timelineState,
                 animationFrameId, notified, lastOp, opParity, world,
                 recomputed>>

dispose ==
  LET stop == stopAnimation(animationFrameId, scheduled)
  IN /\ animationFrameId' = stop.animationFrameId
     /\ scheduled' = stop.scheduled
     /\ tasks' = <<>>
     /\ taskMap' = EmptyMap
     /\ entityLinks' = EmptyMap
     /\ linkRules' = EmptyMap
     /\ notified' = <<>>
     /\ opParity' = 1 - opParity
     /\ recomputed' = <<>>
     /\ UNCHANGED world
     /\ lastOp' = [op |-> "dispose"]
     /\ UNCHANGED timelineState

----------------------------------------------------------------------------
(* Inputs of the timeline specification *)

\* a tree whose extreme dates are on its deepest tasks, a single task inside
\* the window of the first, and the empty list
TimelineTaskLists ==
  { <<>>,
    << Task("t1", 1, 2, << Task("t2", 0, 1, << Task("t3", 2, MaxDate, <<>>) >>) >>) >>,
    << Task("t1", 1, 2, <<>>) >> }

NextTimeline ==
  \/ \E ts \in TimelineTaskLists : loadTasks(ts) /\ UNCHANGED <<period, hook>>
  \/ \E d \in Dates : setCurrentDate(d) /\ UNCHANGED <<period, hook>>
  \/ \E s \in Speeds : setPlaybackSpeed(s) /\ UNCHANGED <<period, hook>>
  \/ play /\ UNCHANGED <<period, hook>>
  \/ pause /\ UNCHANGED <<period, hook>>
  \/ reset /\ UNCHANGED <<period, hook>>
  \/ \E h \in DOMAIN scheduled : animate(h) /\ UNCHANGED <<period, hook>>
  \/ elapse /\ UNCHANGED <<period, hook>>
  \/ dispose /\ UNCHANGED <<period, hook>>

SpecTimeline == Init /\ [][NextTimeline]_vars

NextLinks ==
  \/ \E t \in TaskIds, e \in Entities :
       linkEntityToTask(t, e) /\ UNCHANGED <<period, hook>>
  \/ \E t \in TaskIds, x \in {e.expressId : e \in Entities} :
       unlinkEntityFromTask(t, x) /\ UNCHANGED <<period, hook>>
  \/ \E r \in Rules : addLinkRule(r) /\ UNCHANGED <<period, hook>>
  \/ \E id \in RuleIds : removeLinkRule(id) /\ UNCHANGED <<period, hook>>
  \/ \E t \in TaskIds, es \in EntityLists :
       applyRulesToEntities(t, es) /\ UNCHANGED <<period, hook>>
  \/ dispose /\ UNCHANGED <<period, hook>>

SpecLinks == Init /\ [][NextLinks]_vars

----------------------------------------------------------------------------
(* Inputs of the loading specification: every tree of three levels, one   *)
(* task per level, and every pair of roots, over all the date ranges      *)

\* the date ranges of a task: endDate >= startDate
DatePairs == {p \in Dates \X Dates : p[1] <= p[2]}

Level3Tasks == {Task("t3", p[1], p[2], <<>>) : p \in DatePairs}
Level2Tasks ==
  {Task("t2", p[1], p[2], ch) :
     p \in DatePairs, ch \in {<<>>} \cup {<<c>> : c \in Level3Tasks}}
Level1Tasks ==
  {Task("t1", p[1], p[2], ch) :
     p \in DatePairs, ch \in {<<>>} \cup {<<c>> : c \in Level2Tasks}}

LoadTaskLists ==
  {<<>>} \cup {<<t>> : t \in Level1Tasks}
         \cup {<<t, u>> : t \in Level3Tasks, u \in Level3Tasks}

\* a schedule is loaded into a new engine, or over a schedule of one task
NextLoad ==
  \E ts \in LoadTaskLists :
    Len(flattenTasks(tasks)) <= 1 /\ loadTasks(ts) /\ UNCHANGED <<period, hook>>

SpecLoad == Init /\ [][NextLoad]_vars

----------------------------------------------------------------------------
(* The visualization specification: a viewer with a world, a schedule, the *)
(* wall linked to its tasks, and the operations that move currentDate      *)

\* a task of two date units; a milestone (startDate = endDate) with a task
\* whose Finish fell back to an earlier date than its Start
VisTaskLists ==
  { << Task("t1", 1, 2, <<>>) >>,
    << Task("t1", 1, 1, <<>>), Task("t2", 2, 1, <<>>) >> }

VisEntity == Entity("g1", 1, "IfcWall", "Wall-01")

NextVisualization ==
  \/ initialize /\ UNCHANGED <<period, hook>>
  \/ \E ts \in VisTaskLists : loadTasks(ts) /\ UNCHANGED <<period, hook>>
  \/ \E t \in TaskIds : linkEntityToTask(t, VisEntity) /\ UNCHANGED <<period, hook>>
  \/ \E t \in TaskIds :
       unlinkEntityFromTask(t, VisEntity.expressId) /\ UNCHANGED <<period, hook>>
  \/ \E d \in Dates : setCurrentDate(d) /\ UNCHANGED <<period, hook>>
  \/ reset /\ UNCHANGED <<period, hook>>

SpecVisualization == Init /\ [][NextVisualization]_vars

----------------------------------------------------------------------------
(* The recompute specification: every operation that moves currentDate, in *)
(* a viewer whose world was created before the engine is used              *)

NextRecompute ==
  \/ initialize /\ UNCHANGED <<period, hook>>
  \/ \E ts \in VisTaskLists : world /\ loadTasks(ts) /\ UNCHANGED <<period, hook>>
  \/ \E d \in Dates : world /\ setCurrentDate(d) /\ UNCHANGED <<period, hook>>
  \/ world /\ reset /\ UNCHANGED <<period, hook>>
  \/ world /\ play /\ UNCHANGED <<period, hook>>
  \/ \E h \in DOMAIN scheduled : animate(h) /\ UNCHANGED <<period, hook>>
  \/ elapse /\ UNCHANGED <<period, hook>>

SpecRecompute == Init /\ [][NextRecompute]_vars

----------------------------------------------------------------------------
(* The playback specification: the timeline operations with the history of *)
(* the Playing period                                                      *)

\* the period after a step of the engine or of the clock
PeriodHistory ==
  period' =
    IF opParity' = opParity
      THEN IF period.open THEN [period EXCEPT !.seconds = @ + 1] ELSE period
    ELSE IF lastOp'.op = "play"
      THEN IF timelineState.isPlaying THEN period
           ELSE [date |-> timelineState.currentDate, seconds |-> 0,
                 steady |-> TRUE, open |-> TRUE]
    ELSE IF lastOp'.op = "pause"
      THEN NoPeriod
    ELSE IF lastOp'.op = "animate"
      THEN IF lastOp'.ran /\ ~timelineState'.isPlaying THEN NoPeriod
           ELSE period
    ELSE IF period.open THEN [period EXCEPT !.steady = FALSE]
    ELSE period

PlaybackTaskLists == { << Task("t1", 0, MaxDate, <<>>) >> }

NextPlayback ==
  \/ \E ts \in PlaybackTaskLists : loadTasks(ts) /\ PeriodHistory /\ UNCHANGED hook
  \/ \E d \in Dates : setCurrentDate(d) /\ PeriodHistory /\ UNCHANGED hook
  \/ \E s \in Speeds : setPlaybackSpeed(s) /\ PeriodHistory /\ UNCHANGED hook
  \/ play /\ PeriodHistory /\ UNCHANGED hook
  \/ pause /\ PeriodHistory /\ UNCHANGED hook
  \/ \E h \in DOMAIN scheduled : animate(h) /\ PeriodHistory /\ UNCHANGED hook
  \/ period.seconds < MaxPeriodSeconds /\ elapse /\ PeriodHistory /\ UNCHANGED hook

SpecPlayback == Init /\ [][NextPlayback]_vars

----------------------------------------------------------------------------
(* The rule specification: the entities of one model linked by hand and    *)
(* through the rules                                                       *)

NextRules ==
  \/ \E t \in TaskIds, e \in ModelEntities :
       linkEntityToTask(t, e) /\ UNCHANGED <<period, hook>>
  \/ \E t \in TaskIds, e \in ModelEntities :
       unlinkEntityFromTask(t, e.expressId) /\ UNCHANGED <<period, hook>>
  \/ \E r \in Rules : addLinkRule(r) /\ UNCHANGED <<period, hook>>
  \/ \E t \in TaskIds, es \in EntityLists :
       applyRulesToEntities(t, es) /\ UNCHANGED <<period, hook>>

SpecRules == Init /\ [][NextRules]_vars

----------------------------------------------------------------------------
(* The use4D hook: the engine behind the React state taskLinks and         *)
(* taskRules, and the database the hook loads a project from               *)

\* scheduling.onLinksUpdated, for the notifications of one engine call:
\* `updated.set(taskId, links)`
RECURSIVE onLinksUpdated(_, _)
onLinksUpdated(taskLinks, events) ==
  IF events = <<>> THEN taskLinks
  ELSE onLinksUpdated(
         IF Head(events).kind = "onLinksUpdated"
           THEN MapSet(taskLinks, Head(events).taskId, Head(events).links)
           ELSE taskLinks,
         Tail(events))

\* `entities.forEach((entity) => linkEntityToTask(taskId, entity))`
RECURSIVE LinkEach(_, _, _)
LinkEach(acc, taskId, entities) ==
  IF entities = <<>> THEN acc
  ELSE LET r == linkEntity(acc.links, taskId, Head(entities))
       IN LinkEach([links |-> r.links, events |-> acc.events \o r.events],
                   taskId, Tail(entities))

\* Scheduling4DModule.addLinkRule on a rule map
PushRule(rules, rule) ==
  MapSet(rules, rule.taskId,
         Append(IF rule.taskId \in DOMAIN rules THEN rules[rule.taskId]
                ELSE <<>>, rule))

\* `rules.filter((r) => r.id !== ruleId)` for every task of a rule map
DropRule(rules, ruleId) ==
  LET Keep(r) == r.id # ruleId
  IN [t \in DOMAIN rules |-> SelectSeq(rules[t], Keep)]

\* the ids `rule_${Date.now()}_${Math.random()...}`: an id no stored rule has
GeneratedIds ==
  <<"rule_1", "rule_2", "rule_3", "rule_4", "rule_5", "rule_6", "rule_7",
    "rule_8", "rule_9", "rule_10", "rule_11", "rule_12", "rule_13">>

StoredRuleIds(rules) ==
  UNION {{rules[t][i].id : i \in DOMAIN rules[t]} : t \in DOMAIN rules}

UsedRuleIds == StoredRuleIds(linkRules) \cup StoredRuleIds(hook.taskRules)

FreshRuleId ==
  GeneratedIds[CHOOSE i \in DOMAIN GeneratedIds :
                 /\ GeneratedIds[i] \notin UsedRuleIds
                 /\ \A j \in 1..(i - 1) : GeneratedIds[j] \in UsedRuleIds]

\* the rule the linking panel submits: a name pattern for t1, without an id
RuleTemplates ==
  {[taskId |-> r.taskId, ruleType |-> r.ruleType,
    ruleConfig |-> r.ruleConfig, isActive |-> r.isActive] :
     r \in {x \in Rules : x.ruleType = "name_pattern"}}

\* no rule list of the map is longer than the bound of the rule store
RulesWithinBound(rules) == \A t \in DOMAIN rules : Len(rules[t]) <= MaxRules

use4D_linkEntitiesToTask(taskId, entities) ==
  LET r == LinkEach([links |-> entityLinks, events |-> <<>>], taskId,
                    entities)
  IN /\ entityLinks' = r.links
     /\ notified' = r.events
     /\ hook' = [hook EXCEPT !.taskLinks = onLinksUpdated(@, r.events)]
     /\ opParity' = 1 - opParity
     /\ recomputed' = <<>>
     /\ lastOp' = [op |-> "use4D.linkEntitiesToTask", taskId |-> taskId]
     /\ UNCHANGED <<tasks, taskMap, linkRules, timelineState,
                    animationFrameId, scheduled, world, period>>

use4D_unlinkEntityFromTask(taskId, entityExpressId) ==
  /\ unlinkEntityFromTask(taskId, entityExpressId)
  /\ hook' = [hook EXCEPT !.taskLinks = onLinksUpdated(@, notified')]
  /\ UNCHANGED period

use4D_addLinkRule(rule) ==
  LET fullRule == Rule(FreshRuleId, rule.taskId, rule.ruleType,
                       rule.ruleConfig, rule.isActive)
  IN /\ RulesWithinBound(PushRule(linkRules, fullRule))
     /\ RulesWithinBound(PushRule(hook.taskRules, fullRule))
     /\ linkRules' = PushRule(linkRules, fullRule)
     /\ hook' = [hook EXCEPT !.taskRules = PushRule(@, fullRule)]
     /\ notified' = <<>>
     /\ opParity' = 1 - opParity
     /\ recomputed' = <<>>
     /\ lastOp' = [op |-> "use4D.addLinkRule", rule |-> fullRule]
     /\ UNCHANGED <<tasks, taskMap, entityLinks, timelineState,
                    animationFrameId, scheduled, world, period>>

use4D_removeLinkRule(ruleId) ==
  /\ removeLinkRule(ruleId)
  /\ hook' = [hook EXCEPT !.taskRules = DropRule(@, ruleId)]
  /\ UNCHANGED period

\* `linksByTask.set(link.taskId, [...existing, link])` and the same for rules
RECURSIVE GroupByTask(_, _)
GroupByTask(acc, rows) ==
  IF rows = <<>> THEN acc
  ELSE GroupByTask(
         MapSet(acc, Head(rows).taskId,
                Append(IF Head(rows).taskId \in DOMAIN acc
                         THEN acc[Head(rows).taskId] ELSE <<>>,
                       Head(rows))),
         Tail(rows))

\* `loadedRules.forEach((rule) => ... addLinkRule(rule))`
RECURSIVE PushRules(_, _)
PushRules(rules, loadedRules) ==
  IF loadedRules = <<>> THEN rules
  ELSE PushRules(PushRule(rules, Head(loadedRules)), Tail(loadedRules))

\* what databaseService answers for a project: its tasks, links and rules,
\* and the query that fails, if one does
Database(ts, links, rules, error) ==
  [tasks |-> ts, links |-> links, rules |-> rules, error |-> error]

\* a saved project with the wall linked to t1 and the rule r1, and a saved
\* project without tasks whose only row is the rule r3
Databases ==
  { Database(<< Task("t1", 1, 2, <<>>) >>,
             << NewLink("t1", Entity("g1", 1, "IfcWall", "Wall-01")) >>,
             << CHOOSE r \in Rules : r.id = "r1" >>, e) :
      e \in {"none", "getTasks", "getTaskLinks", "getLinkRules"} }
  \cup
  { Database(<<>>, <<>>, << CHOOSE r \in Rules : r.id = "r3" >>, "none") }

loadFromDatabase(db) ==
  LET flat == flattenTasks(db.tasks)
      tl == calculateProjectTimeline(timelineState, flat)
      tasksLoaded == db.error # "getTasks"
      linksLoaded == tasksLoaded /\ db.error # "getTaskLinks"
      rulesLoaded == linksLoaded /\ db.error # "getLinkRules"
      rules == IF rulesLoaded THEN PushRules(linkRules, db.rules)
               ELSE linkRules
  IN /\ RulesWithinBound(rules)
     /\ IF tasksLoaded
          THEN /\ tasks' = db.tasks
               /\ taskMap' = BuildTaskMap(flat, EmptyMap)
               /\ timelineState' = tl.state
               /\ notified' = tl.events \o <<TasksEvent(db.tasks)>>
          ELSE /\ notified' = <<>>
               /\ UNCHANGED <<tasks, taskMap, timelineState>>
     /\ linkRules' = rules
     /\ hook' =
          [taskLinks |-> IF linksLoaded THEN GroupByTask(EmptyMap, db.links)
                         ELSE hook.taskLinks,
           taskRules |-> IF rulesLoaded THEN GroupByTask(EmptyMap, db.rules)
                         ELSE hook.taskRules]
     /\ opParity' = 1 - opParity
     /\ recomputed' = <<>>
     /\ lastOp' = [op |-> "use4D.loadFromDatabase", error |-> db.error]
     /\ UNCHANGED <<entityLinks, animationFrameId, scheduled, world, period>>

\* the entity selections of the linking panel: the wall, or the wall and
\* the door
Selections ==
  {es \in EntityLists :
     /\ Len(es) >= 1
     /\ es[1].expressId = 1
     /\ \A i \in DOMAIN es : es[i].expressId = i}

\* the task selected in the linking panel
SelectedTask == "t1"

NextHook ==
  \/ \E es \in Selections : use4D_linkEntitiesToTask(SelectedTask, es)
  \/ \E e \in ModelEntities :
       use4D_unlinkEntityFromTask(SelectedTask, e.expressId)
  \/ \E r \in RuleTemplates : use4D_addLinkRule(r)
  \/ \E id \in UsedRuleIds : use4D_removeLinkRule(id)
  \/ \E db \in Databases : loadFromDatabase(db)

SpecHook == Init /\ [][NextHook]_vars

----------------------------------------------------------------------------
(* The matcher specification: doesEntityMatchRule on every entity and rule *)
(* of a bounded set                                                        *)

\* walls and doors without a name, with an empty name and with a name
MatchEntities ==
  {Entity("g1", 1, t, n) :
     t \in {"IfcWall", "IfcDoor"}, n \in {Undefined, "", "Wall-01", "Slab"}}

\* ruleConfig without fields, with an empty and a non-empty type set, with
\* an empty, a matching, an invalid pattern, and with both fields
MatchConfigs ==
  { EmptyMap,
    [ifcTypes |-> {}],
    [ifcTypes |-> {"IfcWall"}],
    [pattern |-> ""],
    [pattern |-> "wall"],
    [pattern |-> "SLAB"],
    [pattern |-> "["],
    [pattern |-> "wall", ifcTypes |-> {"IfcDoor"}] }

\* the three rule types and one that the switch does not know
MatchRules ==
  {Rule("r1", "t1", ty, cfg, TRUE) :
     ty \in {"type_filter", "name_pattern", "property_match", "custom"},
     cfg \in MatchConfigs}

\* one evaluation of the matcher, as applyRulesToEntities makes it
evaluateRule(entity, rule) ==
  /\ lastOp' = [op |-> "doesEntityMatchRule", entity |-> entity,
                rule |-> rule, result |-> doesEntityMatchRule(entity, rule)]
  /\ opParity' = 1 - opParity
  /\ notified' = <<>>
  /\ recomputed' = <<>>
  /\ UNCHANGED <<tasks, taskMap, entityLinks, linkRules, timelineState,
                 animationFrameId, scheduled, world>>

NextMatcher ==
  \E e \in MatchEntities, r \in MatchRules :
    evaluateRule(e, r) /\ UNCHANGED <<period, hook>>

SpecMatcher == Init /\ [][NextMatcher]_vars

----------------------------------------------------------------------------
(* The rule store specification: rules added and removed, and applied to   *)
(* one entity at a time                                                    *)

NextRuleStore ==
  \/ \E r \in Rules : addLinkRule(r) /\ UNCHANGED <<period, hook>>
  \/ \E id \in RuleIds : removeLinkRule(id) /\ UNCHANGED <<period, hook>>
  \/ \E t \in TaskIds, e \in ModelEntities :
       applyRulesToEntities(t, <<e>>) /\ UNCHANGED <<period, hook>>

SpecRuleStore == Init /\ [][NextRuleStore]_vars

----------------------------------------------------------------------------
(* The query specification: schedules loaded and asked for the tasks that  *)
(* are active on a date                                                    *)

\* getActiveTasksOnDate: `date >= task.startDate && date <= task.endDate`
isActiveOnEndExclusive(task, date) ==
  date >= task.startDate /\ date < task.endDate
isActiveOn(task, date) ==
  date >= task.startDate /\ date <= task.endDate

getActiveTasksOnDate(date) ==
  LET flatTasks == flattenTasks(tasks)
      Active(task) == isActiveOn(task, date)
  IN /\ lastOp' = [op |-> "getActiveTasksOnDate", date |-> date,
                   result |-> SelectSeq(flatTasks, Active)]
     /\ opParity' = 1 - opParity
     /\ notified' = <<>>
     /\ recomputed' = <<>>
     /\ UNCHANGED <<tasks, taskMap, entityLinks, linkRules, timelineState,
                    animationFrameId, scheduled, world>>

\* the trees of the timeline and of the visualization, and every pair of
\* roots over all the date ranges
QueryTaskLists ==
  TimelineTaskLists \cup VisTaskLists
    \cup {<<t, u>> : t \in Level3Tasks, u \in Level3Tasks}

NextQuery ==
  \/ \E ts \in QueryTaskLists : loadTasks(ts) /\ UNCHANGED <<period, hook>>
  \/ \E d \in Dates :
       getActiveTasksOnDate(d) /\ UNCHANGED <<period, hook>>

SpecQuery == Init /\ [][NextQuery]_vars

----------------------------------------------------------------------------
(* MS Project parser: the Task records of a document, as the XML parser    *)
(* hands them over, and the two passes of parseTasks                       *)

\* a tag that the record does not have
NoUID == 0 - 1
NoDate == 0 - 1
\* a Start or Finish text that `new Date(text)` cannot read
BadDate == 0 - 2
\* `new Date()`: the time of the parse, between the dates of the documents
Now == 2

\* a Task element.  OutlineNumber is its text split at the dots ("1.1" is
\* <<1, 1>>, no tag is <<>>); OutlineLevel 0 is also a record without the tag
XmlTask(uid, level, number, start, finish, duration) ==
  [UID |-> uid, OutlineLevel |-> level, OutlineNumber |-> number,
   Start |-> start, Finish |-> finish, Duration |-> duration]

\* XMLParser with parseTagValue: a text that reads as a number ("1", "1.1",
\* "8") is handed over as a number, any other text ("1.1.1", "PT8H0M0S") as
\* a string
OutlineNumberIsNumber(number) == Len(number) \in {1, 2}
DurationIsNumber(duration) == duration \in {"0", "8"}

\* `taskData.OutlineNumber || undefined` in a condition: no tag and the
\* number 0 are falsy
HasOutlineNumber(number) == number # <<>> /\ number # <<0>>

\* parseDate
parseDate(dateString) ==
  IF dateString = NoDate THEN Now
  ELSE IF dateString = BadDate THEN Now
  ELSE dateString

\* parseDuration throws: a number has no startsWith
parseDurationThrows(durationString) ==
  /\ durationString \notin {"absent", "0"}
  /\ DurationIsNumber(durationString)

\* parseDuration, in days of eight hours
parseDuration(durationString) ==
  CASE durationString \in {"absent", "0"} -> 0
    [] durationString = "PT8H0M0S" -> 1
    [] durationString = "PT16H0M0S" -> 2
    [] OTHER -> 0

\* parseTasks, first pass: `if (!taskData.UID) continue;`
isSkippedAlsoZero(taskData) == taskData.UID = NoUID
isSkipped(taskData) == taskData.UID = NoUID \/ taskData.UID = 0

\* parseTasks, first pass: the task of a record; `record` is the position of
\* the record in the document
NewTask(taskData, i) ==
  [taskId |-> taskData.UID,
   startDate |-> parseDate(taskData.Start),
   endDate |-> parseDate(taskData.Finish),
   duration |-> parseDuration(taskData.Duration),
   outlineLevel |-> IF taskData.OutlineLevel = 0 THEN 1
                    ELSE taskData.OutlineLevel,
   outlineNumber |-> taskData.OutlineNumber,
   record |-> i]

\* parseTasks, first pass: the tasks in document order, and whether the
\* construction of one of them threw
RECURSIVE createTasks(_, _, _)
createTasks(acc, taskArray, i) ==
  IF i > Len(taskArray) \/ acc.threw THEN acc
  ELSE IF isSkipped(taskArray[i]) THEN createTasks(acc, taskArray, i + 1)
  ELSE IF parseDurationThrows(taskArray[i].Duration)
    THEN [acc EXCEPT !.threw = TRUE]
  ELSE createTasks([acc EXCEPT !.tasks = Append(@, NewTask(taskArray[i], i))],
                   taskArray, i + 1)

\* `task.outlineNumber.startsWith(potentialParent.outlineNumber + '.')`
startsWith(number, prefix) ==
  /\ Len(prefix) < Len(number)
  /\ SubSeq(number, 1, Len(prefix)) = prefix

\* findParentTask: the loop over allTasks from position j.  parent is the
\* position of the parent among the tasks, 0 for null; the call of
\* startsWith on an outline number that is a number throws
RECURSIVE findParentFrom(_, _, _)
findParentFrom(task, allTasks, j) ==
  IF j > Len(allTasks) THEN [threw |-> FALSE, parent |-> 0]
  ELSE IF /\ allTasks[j].outlineLevel = task.outlineLevel - 1
          /\ HasOutlineNumber(task.outlineNumber)
          /\ HasOutlineNumber(allTasks[j].outlineNumber)
    THEN IF OutlineNumberIsNumber(task.outlineNumber)
           THEN [threw |-> TRUE, parent |-> 0]
         ELSE IF startsWith(task.outlineNumber, allTasks[j].outlineNumber)
           THEN [threw |-> FALSE, parent |-> j]
         ELSE findParentFrom(task, allTasks, j + 1)
  ELSE findParentFrom(task, allTasks, j + 1)

findParentTask(task, allTasks) ==
  IF task.outlineLevel <= 1 THEN [threw |-> FALSE, parent |-> 0]
  ELSE findParentFrom(task, allTasks, 1)

\* parseTasks, second pass: the task goes to its parent's children or to
\* the roots
attachKeepsRoot(acc, k, parent) ==
  IF parent # 0
    THEN [acc EXCEPT !.children[parent] = Append(@, k),
                     !.rootTasks = Append(@, k)]
    ELSE [acc EXCEPT !.rootTasks = Append(@, k)]
attach(acc, k, parent) ==
  IF parent # 0
    THEN [acc EXCEPT !.children[parent] = Append(@, k)]
    ELSE [acc EXCEPT !.rootTasks = Append(@, k)]

\* parseTasks, second pass, from the task at position k
RECURSIVE buildHierarchy(_, _, _)
buildHierarchy(acc, allTasks, k) ==
  IF k > Len(allTasks) \/ acc.threw THEN acc
  ELSE LET found == findParentTask(allTasks[k], allTasks)
       IN IF found.threw THEN [acc EXCEPT !.threw = TRUE]
          ELSE buildHierarchy(attach(acc, k, found.parent), allTasks, k + 1)

\* parseTasks: the tasks by position, the positions of the roots and of
\* the children of every task
parseTasks(tasksData) ==
  LET first == createTasks([threw |-> FALSE, tasks |-> <<>>], tasksData, 1)
      second == buildHierarchy([threw |-> FALSE, rootTasks |-> <<>>,
                                children |-> [k \in DOMAIN first.tasks |-> <<>>]],
                               first.tasks, 1)
  IN IF first.threw THEN [threw |-> TRUE]
     ELSE IF second.threw THEN [threw |-> TRUE]
     ELSE [threw |-> FALSE, tasks |-> first.tasks,
           rootTasks |-> second.rootTasks, children |-> second.children]

\* parseXML failed: the promise is rejected, no tree is returned
Failed == [ok |-> FALSE, tasks |-> <<>>, rootTasks |-> <<>>, children |-> <<>>]

\* a document: no Project element, an empty one (`<Project/>`, which the
\* XML parser hands over as the empty string), or one with Task records
Document(project, records) == [project |-> project, records |-> records]

\* the answer of parseXML
parseXMLResult(doc) ==
  IF doc.project # "present" THEN Failed
  ELSE LET parsed == parseTasks(doc.records)
       IN IF parsed.threw THEN Failed
          ELSE [ok |-> TRUE, tasks |-> parsed.tasks,
                rootTasks |-> parsed.rootTasks, children |-> parsed.children]

\* MSProjectParser.flattenTasks on the positions of a tree
RECURSIVE flattenParsed(_, _)
flattenParsed(positions, children) ==
  IF positions = <<>> THEN <<>>
  ELSE <<Head(positions)>> \o flattenParsed(children[Head(positions)], children)
         \o flattenParsed(Tail(positions), children)

parseXML(doc) ==
  /\ lastOp' = [op |-> "parseXML", doc |-> doc, result |-> parseXMLResult(doc)]
  /\ opParity' = 1 - opParity
  /\ notified' = <<>>
  /\ recomputed' = <<>>
  /\ UNCHANGED <<tasks, taskMap, entityLinks, linkRules, timelineState,
                 animationFrameId, scheduled, world>>

\* outline positions of a record: no outline tags, a root with and without
\* a number, tasks of level 2 and 3 whose number is a number ("1.1"), a
\* string ("1.1.1", "1.1.1.1") or missing
Outlines ==
  { <<0, <<>> >>, <<0, <<0>> >>, <<1, <<1>> >>, <<1, <<>> >>,
    <<2, <<1, 1>> >>, <<2, <<1, 1, 1>> >>, <<2, <<2, 1, 1>> >>, <<2, <<>> >>,
    <<3, <<1, 1, 1>> >>, <<3, <<1, 1, 2>> >>, <<3, <<1, 1, 1, 1>> >> }

\* documents that differ in their outline: record i has the identifier i
OutlineRecords ==
  UNION {[1..n -> Outlines] : n \in 0..MaxRecords}

OutlineDocuments ==
  {Document("present",
            [i \in DOMAIN os |->
               XmlTask(i, os[i][1], os[i][2], 1, 3, "PT8H0M0S")]) :
     os \in OutlineRecords}

\* documents of one record that differ in its identifier, dates and
\* duration; a record with both dates has Start <= Finish
FieldDocuments ==
  {Document("present", <<XmlTask(f[1], 1, <<1>>, f[2], f[3], f[4])>>) :
     f \in {g \in {NoUID, 0, 1} \X {NoDate, BadDate, 1, 3}
                    \X {NoDate, BadDate, 1, 3}
                    \X {"absent", "0", "8", "PT8H0M0S", "PT16H0M0S"} :
              g[2] < 0 \/ g[3] < 0 \/ g[2] <= g[3]}}

\* documents of two records that differ in their identifiers
IdentifierDocuments ==
  {Document("present",
            <<XmlTask(u, 1, <<1>>, 1, 3, "PT8H0M0S"),
              XmlTask(v, 1, <<2>>, 1, 3, "PT8H0M0S")>>) :
     u \in {NoUID, 0, 1, 2}, v \in {NoUID, 0, 1, 2}}

Documents ==
  {Document("absent", <<>>), Document("empty", <<>>)}
    \cup OutlineDocuments \cup FieldDocuments \cup IdentifierDocuments

\* every document is parsed by a new parser
NextParser ==
  \E doc \in Documents :
    lastOp.op = "constructor" /\ parseXML(doc) /\ UNCHANGED <<period, hook>>

SpecParser == Init /\ [][NextParser]_vars

----------------------------------------------------------------------------
(* The progress specification: the engine is set up while it is Stopped,   *)
(* and once it is Playing only the host acts: frames fire and time passes  *)

\* a frame that fires after real time has passed since its loop last ran
positiveTick ==
  \E h \in DOMAIN scheduled : scheduled[h] > 0 /\ animate(h)

NextProgress ==
  \/ \E ts \in PlaybackTaskLists :
       ~timelineState.isPlaying /\ loadTasks(ts) /\ UNCHANGED <<period, hook>>
  \/ \E d \in Dates :
       ~timelineState.isPlaying /\ setCurrentDate(d)
         /\ UNCHANGED <<period, hook>>
  \/ \E s \in Speeds :
       ~timelineState.isPlaying /\ setPlaybackSpeed(s)
         /\ UNCHANGED <<period, hook>>
  \/ ~timelineState.isPlaying /\ play /\ UNCHANGED <<period, hook>>
  \/ \E h \in DOMAIN scheduled : animate(h) /\ UNCHANGED <<period, hook>>
  \/ elapse /\ UNCHANGED <<period, hook>>

\* the host keeps its clock running and fires every pending frame
SpecProgress ==
  /\ Init
  /\ [][NextProgress]_vars
  /\ WF_vars(elapse /\ UNCHANGED <<period, hook>>)
  /\ WF_vars(positiveTick /\ UNCHANGED <<period, hook>>)

----------------------------------------------------------------------------
(* The window specification: the timeline operations without               *)
(* setCurrentDate, on schedules whose tasks have startDate <= endDate      *)

WindowTaskLists ==
  TimelineTaskLists \cup
    { << Task("t1", 2, 2, <<>>) >>,
      << Task("t1", 0, MaxDate, <<>>) >>,
      << Task("t1", 2, 3, <<>>), Task("t2", 0, 1, <<>>) >> }

NextWindow ==
  \/ \E ts \in WindowTaskLists : loadTasks(ts) /\ UNCHANGED <<period, hook>>
  \/ \E s \in Speeds : setPlaybackSpeed(s) /\ UNCHANGED <<period, hook>>
  \/ play /\ UNCHANGED <<period, hook>>
  \/ pause /\ UNCHANGED <<period, hook>>
  \/ reset /\ UNCHANGED <<period, hook>>
  \/ \E h \in DOMAIN scheduled : animate(h) /\ UNCHANGED <<period, hook>>
  \/ elapse /\ UNCHANGED <<period, hook>>

SpecWindow == Init /\ [][NextWindow]_vars

----------------------------------------------------------------------------
(* The reload specification: a viewer in which schedules are loaded over   *)
(* one another while links and rules of their tasks are stored             *)

\* getTaskLinks: this.entityLinks.get(taskId) || []
getTaskLinks(taskId) ==
  IF taskId \in DOMAIN entityLinks THEN entityLinks[taskId] ELSE <<>>

\* getTaskRules: this.linkRules.get(taskId) || []
getTaskRules(taskId) ==
  IF taskId \in DOMAIN linkRules THEN linkRules[taskId] ELSE <<>>

ReloadRules == {r \in Rules : r.id \in {"r1", "r3"}}

NextReload ==
  \/ initialize /\ UNCHANGED <<period, hook>>
  \/ \E ts \in VisTaskLists : loadTasks(ts) /\ UNCHANGED <<period, hook>>
  \/ \E t \in TaskIds : linkEntityToTask(t, VisEntity) /\ UNCHANGED <<period, hook>>
  \/ \E r \in ReloadRules : addLinkRule(r) /\ UNCHANGED <<period, hook>>
  \/ \E d \in Dates : setCurrentDate(d) /\ UNCHANGED <<period, hook>>
  \/ reset /\ UNCHANGED <<period, hook>>

SpecReload == Init /\ [][NextReload]_vars

----------------------------------------------------------------------------
(* Properties *)

LinksOf(m, t) == IF t \in DOMAIN m THEN m[t] ELSE <<>>

\* how many links of a list are links of expressId x
CountOf(links, x) ==
  Cardinality({i \in DOMAIN links : links[i].entityExpressId = x})

NoTimelineEvent(events) ==
  \A i \in DOMAIN events : events[i].kind # "onTimelineStateChanged"

\* every task of the trees, at every depth
RECURSIVE TreeNodes(_)
TreeNodes(ts) ==
  UNION {{ts[i]} \cup TreeNodes(ts[i].children) : i \in DOMAIN ts}

\* C1: in every reachable state of the link store the link list of each
\* task holds at most one link for any entityExpressId.
C1_OneLinkPerEntity ==
  \A t \in DOMAIN entityLinks :
    \A i, j \in DOMAIN entityLinks[t] :
      i # j => entityLinks[t][i].entityExpressId
                 # entityLinks[t][j].entityExpressId

\* an entity whose expressId was linked already has just been linked again,
\* to a task that holds two links
C1_Witness ==
  /\ lastOp.op = "linkEntityToTask"
  /\ notified = <<>>
  /\ Len(LinksOf(entityLinks, lastOp.taskId)) = 2

\* C2: linking the same entity to the same task twice in a row leaves
\* exactly one link for it; the first call (the entity not yet linked)
\* appends the link and invokes onLinksUpdated once with the task's full
\* updated list, the second call invokes nothing and changes nothing.
C2_IdempotentLink ==
  [][\A t \in TaskIds, e \in Entities :
       (lastOp'.op = "linkEntityToTask" /\ linkEntityToTask(t, e)) =>
         /\ CountOf(LinksOf(entityLinks', t), e.expressId) = 1
         /\ CountOf(LinksOf(entityLinks, t), e.expressId) = 0 =>
              /\ Len(entityLinks'[t]) = Len(LinksOf(entityLinks, t)) + 1
              /\ notified' = <<LinksEvent(t, entityLinks'[t])>>
         /\ (lastOp = [op |-> "linkEntityToTask", taskId |-> t, entity |-> e]) =>
              /\ notified' = <<>>
              /\ entityLinks' = entityLinks]_vars

\* the second of two identical calls in a row has returned
C2_Witness ==
  /\ lastOp.op = "linkEntityToTask"
  /\ notified = <<>>
  /\ CountOf(LinksOf(entityLinks, lastOp.taskId), lastOp.entity.expressId) = 1
  /\ Len(LinksOf(entityLinks, lastOp.taskId)) = 1

\* C3: a playback tick (the frame callback running while Playing) never
\* leaves currentDate after endDate: if the advanced date exceeds endDate
\* the tick leaves currentDate = endDate and isPlaying false, otherwise it
\* leaves currentDate = the advanced date and isPlaying true.
C3_TickClamp ==
  [][\A h \in DOMAIN scheduled :
       (lastOp'.op = "animate" /\ animate(h) /\ timelineState.isPlaying) =>
         LET advanced == timelineState.currentDate
                           + scheduled[h] * timelineState.playbackSpeed
         IN /\ timelineState'.currentDate <= timelineState'.endDate
            /\ IF advanced > timelineState.endDate
                 THEN /\ timelineState'.currentDate = timelineState.endDate
                      /\ ~timelineState'.isPlaying
                 ELSE /\ timelineState'.currentDate = advanced
                      /\ timelineState'.isPlaying]_vars

\* a tick has clamped: its advanced date was past endDate
C3_Witness ==
  /\ lastOp.op = "animate"
  /\ lastOp.ran
  /\ lastOp.newDate > timelineState.endDate
  /\ timelineState.currentDate = timelineState.endDate
  /\ ~timelineState.isPlaying

\* C4: once pause(), reset() or dispose() has returned, no tick callback
\* remains scheduled with the host.
C4_NoCallbackAfterStop ==
  lastOp.op \in {"pause", "reset", "dispose"} => DOMAIN scheduled = {}

\* C5: after dispose() the task list, the task map, the link map and the
\* rule map are empty, no tick callback is left scheduled, and no tick
\* modifies the timeline afterwards.
C5_DisposeHaltsAndClears ==
  /\ [](lastOp.op = "dispose" =>
          /\ tasks = <<>>
          /\ DOMAIN taskMap = {}
          /\ DOMAIN entityLinks = {}
          /\ DOMAIN linkRules = {}
          /\ DOMAIN scheduled = {})
  /\ [][\A h \in DOMAIN scheduled :
          (lastOp.op = "dispose" /\ lastOp'.op = "animate" /\ animate(h)) =>
            timelineState' = timelineState]_vars

\* C6 as stated: after loadTasks returns, isPlaying is false.
C6_LoadTasksStops ==
  lastOp.op = "loadTasks" => ~timelineState.isPlaying

\* C6, amended: loadTasks leaves isPlaying, the engine's frame handle and
\* the scheduled callbacks as they were.
C6_LoadTasksKeepsPlayState ==
  [][\A ts \in TimelineTaskLists :
       (lastOp'.op = "loadTasks" /\ loadTasks(ts)) =>
         /\ timelineState'.isPlaying = timelineState.isPlaying
         /\ timelineState'.playbackSpeed = timelineState.playbackSpeed
         /\ animationFrameId' = animationFrameId
         /\ scheduled' = scheduled]_vars

\* loadTasks has returned in the Playing state, its tick still scheduled
C6_Witness ==
  /\ lastOp.op = "loadTasks"
  /\ lastOp.tasks # <<>>
  /\ timelineState.isPlaying
  /\ animationFrameId \in DOMAIN scheduled

\* C7: after loadTasks of a non-empty task tree, startDate is the least
\* startDate and endDate the greatest endDate over the tasks of the tree at
\* every depth, and currentDate is the new startDate.
C7_WindowIsMinMax ==
  (lastOp.op = "loadTasks" /\ lastOp.tasks # <<>>) =>
    LET nodes == TreeNodes(lastOp.tasks)
    IN /\ \E n \in nodes : n.startDate = timelineState.startDate
       /\ \A n \in nodes : timelineState.startDate <= n.startDate
       /\ \E n \in nodes : n.endDate = timelineState.endDate
       /\ \A n \in nodes : n.endDate <= timelineState.endDate
       /\ timelineState.currentDate = timelineState.startDate

\* a tree was loaded whose least startDate and greatest endDate are those
\* of its deepest task only
C7_Witness ==
  /\ lastOp.op = "loadTasks"
  /\ Len(lastOp.tasks) = 1
  /\ Len(lastOp.tasks[1].children) = 1
  /\ Len(lastOp.tasks[1].children[1].children) = 1
  /\ LET t1 == lastOp.tasks[1]
         t2 == t1.children[1]
         t3 == t2.children[1]
     IN /\ t3.startDate < t1.startDate /\ t3.startDate < t2.startDate
        /\ t3.endDate > t1.endDate /\ t3.endDate > t2.endDate
        /\ timelineState.startDate = t3.startDate
        /\ timelineState.endDate = t3.endDate

\* C8: loadTasks of the empty list leaves startDate, endDate and
\* currentDate as they were and emits no timeline-state notification.
C8_EmptyLoadKeepsWindow ==
  [][(lastOp'.op = "loadTasks" /\ loadTasks(<<>>)) =>
       /\ timelineState' = timelineState
       /\ NoTimelineEvent(notified')]_vars

\* the empty list was loaded over the window of a previous load, with
\* currentDate moved off startDate
C8_Witness ==
  /\ lastOp.op = "loadTasks"
  /\ lastOp.tasks = <<>>
  /\ timelineState.endDate = MaxDate
  /\ timelineState.currentDate # timelineState.startDate

\* C9: play() in the Stopped state sets isPlaying and schedules one tick
\* callback; play() in the Playing state changes nothing, notifies nothing
\* and schedules nothing.
C9_PlayOnceOnly ==
  [][(lastOp'.op = "play" /\ play) =>
       IF timelineState.isPlaying
         THEN /\ timelineState' = timelineState
              /\ notified' = <<>>
              /\ scheduled' = scheduled
              /\ animationFrameId' = animationFrameId
         ELSE /\ timelineState' = [timelineState EXCEPT !.isPlaying = TRUE]
              /\ animationFrameId' \in DOMAIN scheduled' \ DOMAIN scheduled
              /\ DOMAIN scheduled' = DOMAIN scheduled \cup {animationFrameId'}
              /\ \A h \in DOMAIN scheduled : scheduled'[h] = scheduled[h]]_vars

\* play() has returned without effect in the Playing state
C9_Witness ==
  /\ lastOp.op = "play"
  /\ notified = <<>>
  /\ timelineState.isPlaying
  /\ Cardinality(DOMAIN scheduled) = 1

\* C10: pause() sets isPlaying to false and keeps currentDate; while
\* isPlaying is false no tick changes the timeline, and only play() makes
\* isPlaying true again.
C10_PauseHoldsDate ==
  [][/\ (lastOp'.op = "pause" /\ pause) =>
          /\ ~timelineState'.isPlaying
          /\ timelineState'.currentDate = timelineState.currentDate
     /\ \A h \in DOMAIN scheduled :
          (lastOp'.op = "animate" /\ animate(h) /\ ~timelineState.isPlaying) =>
            timelineState' = timelineState
     /\ (~timelineState.isPlaying /\ timelineState'.isPlaying) =>
          lastOp'.op = "play"]_vars

\* a tick callback has fired in the Stopped state, with time elapsed
C10_Witness ==
  /\ lastOp.op = "animate"
  /\ ~lastOp.ran
  /\ ~timelineState.isPlaying
  /\ timelineState.currentDate < timelineState.endDate

\* C11: reset() called in any state (Stopped or Playing) leaves isPlaying
\* false and currentDate equal to startDate, with startDate, endDate and
\* playbackSpeed unchanged.
C11_ResetToStart ==
  [][(lastOp'.op = "reset" /\ reset) =>
       /\ ~timelineState'.isPlaying
       /\ timelineState'.currentDate = timelineState.startDate
       /\ timelineState'.startDate = timelineState.startDate
       /\ timelineState'.endDate = timelineState.endDate
       /\ timelineState'.playbackSpeed = timelineState.playbackSpeed]_vars

\* reset() has returned in a loaded schedule with a changed speed, after a
\* play() of which a tick is still pending
C11_Witness ==
  /\ lastOp.op = "reset"
  /\ ~timelineState.isPlaying
  /\ timelineState.currentDate = timelineState.startDate
  /\ timelineState.startDate = 0
  /\ timelineState.endDate = MaxDate
  /\ timelineState.playbackSpeed = MaxSpeed
  /\ DOMAIN scheduled # {}

\* C12: setCurrentDate(date) sets currentDate to the given date in either
\* state and causes no state-machine transition: isPlaying, startDate,
\* endDate, playbackSpeed and the set of scheduled tick callbacks are the
\* same before and after the call.
C12_SetDateOnly ==
  [][\A d \in Dates :
       (lastOp'.op = "setCurrentDate" /\ setCurrentDate(d)) =>
         /\ timelineState'.currentDate = d
         /\ timelineState'.isPlaying = timelineState.isPlaying
         /\ timelineState'.startDate = timelineState.startDate
         /\ timelineState'.endDate = timelineState.endDate
         /\ timelineState'.playbackSpeed = timelineState.playbackSpeed
         /\ scheduled' = scheduled
         /\ animationFrameId' = animationFrameId]_vars

\* setCurrentDate has set a date after endDate while Playing, the tick
\* still scheduled
C12_Witness ==
  /\ lastOp.op = "setCurrentDate"
  /\ lastOp.date > timelineState.endDate
  /\ timelineState.currentDate = lastOp.date
  /\ timelineState.isPlaying
  /\ animationFrameId \in DOMAIN scheduled

\* the opacity and color that go with a status in the status table
StyleOfStatus(status) ==
  CASE status = "not started" ->
         [status |-> status, visible |-> TRUE, opacity |-> OpacityDim,
          color |-> "0x888888"]
    [] status = "in progress" ->
         [status |-> status, visible |-> TRUE, opacity |-> OpacityFull,
          color |-> "0xffff88"]
    [] status = "completed" ->
         [status |-> status, visible |-> TRUE, opacity |-> OpacityFull,
          color |-> "0x88ff88"]

\* C13 as stated: the status handed over for a linked task is 'not
\* started' (opacity 0.2, gray) when currentDate < startDate, 'in progress'
\* (1.0, yellow) when startDate <= currentDate < endDate and 'completed'
\* (1.0, green) when currentDate >= endDate; currentDate = startDate is in
\* progress and currentDate = endDate is completed; one status per task.
C13_StatusTable ==
  \A i \in DOMAIN recomputed :
    \A t \in DOMAIN recomputed[i].handed :
      LET d == recomputed[i].date
          task == taskMap[t]
          style == recomputed[i].handed[t].style
      IN /\ style.status \in {"not started", "in progress", "completed"}
         /\ style = StyleOfStatus(style.status)
         /\ d < task.startDate => style.status = "not started"
         /\ (task.startDate <= d /\ d < task.endDate) =>
              style.status = "in progress"
         /\ d >= task.endDate => style.status = "completed"
         /\ d = task.startDate => style.status = "in progress"
         /\ d = task.endDate => style.status = "completed"

\* C13, amended: the status is 'not started' (0.2, gray) exactly when
\* currentDate < startDate, 'completed' (1.0, green) exactly when
\* currentDate >= startDate and currentDate >= endDate, and 'in progress'
\* (1.0, yellow) exactly when startDate <= currentDate < endDate; so
\* currentDate = startDate is in progress only if startDate < endDate, and
\* currentDate = endDate is completed only if endDate >= startDate.
C13_StatusByStartThenEnd ==
  \A i \in DOMAIN recomputed :
    \A t \in DOMAIN recomputed[i].handed :
      LET d == recomputed[i].date
          task == taskMap[t]
          style == recomputed[i].handed[t].style
      IN /\ style.status \in {"not started", "in progress", "completed"}
         /\ style = StyleOfStatus(style.status)
         /\ style.status = "not started" <=> d < task.startDate
         /\ style.status = "completed" <=>
              (d >= task.startDate /\ d >= task.endDate)
         /\ style.status = "in progress" <=>
              (task.startDate <= d /\ d < task.endDate)
         /\ (d = task.startDate /\ task.startDate < task.endDate) =>
              style.status = "in progress"
         /\ (d = task.endDate /\ task.endDate >= task.startDate) =>
              style.status = "completed"

\* a recompute at the date of a linked milestone (startDate = endDate) has
\* handed 'completed', and for a linked task whose endDate precedes its
\* startDate, at a date between the two, 'not started'
C13_Witness ==
  /\ world
  /\ Len(recomputed) = 1
  /\ DOMAIN recomputed[1].handed = {"t1", "t2"}
  /\ taskMap["t1"].startDate = recomputed[1].date
  /\ taskMap["t1"].endDate = recomputed[1].date
  /\ recomputed[1].handed["t1"].style.status = "completed"
  /\ recomputed[1].handed["t1"].links # <<>>
  /\ taskMap["t2"].endDate <= recomputed[1].date
  /\ recomputed[1].date < taskMap["t2"].startDate
  /\ recomputed[1].handed["t2"].style.status = "not started"

\* C14: every operation that changes currentDate (a playback tick,
\* setCurrentDate, reset, loadTasks) runs the visualization recompute with
\* the new date before it returns.
C14_RecomputeOnDateChange ==
  [][timelineState'.currentDate # timelineState.currentDate =>
       /\ recomputed' # <<>>
       /\ recomputed'[Len(recomputed')].date = timelineState'.currentDate]_vars

\* C15: during one uninterrupted Playing period without end clamp the
\* total advance of currentDate is the real time elapsed since play()
\* times playbackSpeed, however the time is split into ticks, and time
\* spent Stopped before play() adds nothing; setPlaybackSpeed changes no
\* date by itself and the next tick advances at the new speed.
C15_AdvanceIsElapsedTimesSpeed ==
  /\ [](( /\ lastOp.op = "animate" /\ lastOp.ran
          /\ period.open /\ period.steady
          /\ animationFrameId \in DOMAIN scheduled
          /\ scheduled[animationFrameId] = 0 ) =>
         timelineState.currentDate
           = period.date + period.seconds * timelineState.playbackSpeed)
  /\ [][\A sp \in Speeds :
          (lastOp'.op = "setPlaybackSpeed" /\ setPlaybackSpeed(sp)) =>
            /\ timelineState'.currentDate = timelineState.currentDate
            /\ timelineState'.playbackSpeed = sp]_vars
  /\ [][\A h \in DOMAIN scheduled :
          ( /\ lastOp'.op = "animate" /\ animate(h)
            /\ lastOp'.ran /\ timelineState'.isPlaying ) =>
            timelineState'.currentDate
              = timelineState.currentDate
                  + scheduled[h] * timelineState.playbackSpeed]_vars

ExpressIds == {e.expressId : e \in Entities}

\* the links a call has appended to a list
Appended(old, new) == {new[i] : i \in (Len(old) + 1)..Len(new)}

\* C16: unlinkEntityFromTask(taskId, expressId) invokes onLinksUpdated
\* exactly once on every call, with the task's resulting list, also when no
\* link matches and when the task never had a link.
C16_UnlinkAlwaysNotifies ==
  lastOp.op = "unlinkEntityFromTask" =>
    notified = <<LinksEvent(lastOp.taskId,
                            LinksOf(entityLinks, lastOp.taskId))>>

ApplyRulesNow(taskId, entities) ==
  ApplyRules([links |-> entityLinks, events |-> <<>>], taskId,
             LinksOf(linkRules, taskId), entities)

\* C18: after applyRulesToEntities(taskId, entities) the task's links are
\* its prior links followed by exactly one new link for each candidate
\* entity that was not yet linked and matches at least one active rule of
\* that task; an entity matching two active rules is linked once, inactive
\* rules and rules of other tasks link nothing, and the links of the other
\* tasks are unchanged. Stated of the call in every reachable state of the
\* stores.
C18_ApplyRulesLinksMatches ==
  \A t \in TaskIds, es \in EntityLists :
    LET after == ApplyRulesNow(t, es).links
        old == LinksOf(entityLinks, t)
        new == LinksOf(after, t)
        rules == LinksOf(linkRules, t)
        Matches(e) ==
          \E i \in DOMAIN rules :
            rules[i].isActive /\ doesEntityMatchRule(e, rules[i])
        due == {e \in {es[k] : k \in DOMAIN es} :
                  CountOf(old, e.expressId) = 0 /\ Matches(e)}
    IN /\ Len(new) = Len(old) + Cardinality(due)
       /\ SubSeq(new, 1, Len(old)) = old
       /\ Appended(old, new) = {NewLink(t, e) : e \in due}
       /\ \A u \in TaskIds \ {t} : LinksOf(after, u) = LinksOf(entityLinks, u)

\* the two active rules of t1, which both match the wall, have been
\* applied and the wall was linked by this call, once; t2 holds an
\* inactive rule
C18_Witness ==
  /\ lastOp.op = "applyRulesToEntities"
  /\ lastOp.taskId = "t1"
  /\ Len(LinksOf(linkRules, "t1")) = 2
  /\ \A i \in DOMAIN linkRules["t1"] :
       /\ linkRules["t1"][i].isActive
       /\ doesEntityMatchRule(VisEntity, linkRules["t1"][i])
  /\ linkRules["t1"][1].id # linkRules["t1"][2].id
  /\ Len(notified) = 1
  /\ CountOf(LinksOf(entityLinks, "t1"), VisEntity.expressId) = 1
  /\ \E i \in DOMAIN LinksOf(linkRules, "t2") : ~linkRules["t2"][i].isActive

\* C19: applyRulesToEntities is idempotent: applying the rules of a task
\* to the same entity list a second time leaves the link store as after
\* the first application and emits no onLinksUpdated notification. Stated
\* of two calls in a row made in any reachable state of the stores.
C19_ApplyRulesIdempotent ==
  \A t \in TaskIds, es \in EntityLists :
    LET first == ApplyRulesNow(t, es)
        again == ApplyRules([links |-> first.links, events |-> <<>>], t,
                            LinksOf(linkRules, t), es)
    IN /\ again.links = first.links
       /\ again.events = <<>>

\* rules of a task whose active rule matches an entity linked to it have
\* been applied without effect
C19_Witness ==
  /\ lastOp.op = "applyRulesToEntities"
  /\ notified = <<>>
  /\ \E i \in DOMAIN LinksOf(linkRules, lastOp.taskId) :
       LET rule == linkRules[lastOp.taskId][i]
       IN /\ rule.isActive
          /\ \E e \in ModelEntities :
               /\ doesEntityMatchRule(e, rule)
               /\ CountOf(LinksOf(entityLinks, lastOp.taskId), e.expressId) = 1

\* C20: a link created by a manual linkEntityToTask call has linkType
\* 'manual' and a link created through applyRulesToEntities has linkType
\* 'rule'.
C20_LinkTypeIsProvenance ==
  [][/\ \A t \in TaskIds, e \in Entities :
          (lastOp'.op = "linkEntityToTask" /\ linkEntityToTask(t, e)) =>
            \A l \in Appended(LinksOf(entityLinks, t),
                              LinksOf(entityLinks', t)) :
              l.linkType = "manual"
     /\ \A t \in TaskIds, es \in EntityLists :
          (lastOp'.op = "applyRulesToEntities" /\ lastOp'.taskId = t
             /\ applyRulesToEntities(t, es)) =>
            \A l \in Appended(LinksOf(entityLinks, t),
                              LinksOf(entityLinks', t)) :
              l.linkType = "rule"]_vars

\* C21: adding a rule links the entities that match it: right after the
\* add-rule operation every loaded entity that matches the new active rule
\* has a link to the rule's task, without any further call.
C21_AddRuleLinksMatches ==
  (lastOp.op = "use4D.addLinkRule" /\ lastOp.rule.isActive) =>
    \A e \in ModelEntities :
      doesEntityMatchRule(e, lastOp.rule) =>
        CountOf(LinksOf(entityLinks, lastOp.rule.taskId), e.expressId) >= 1

\* C23: rule ids are unique across the whole store: no two stored rules, on
\* the same task or on different tasks, have the same id.
C23_RuleIdsUnique ==
  \A t, u \in DOMAIN linkRules :
    \A i \in DOMAIN linkRules[t], j \in DOMAIN linkRules[u] :
      (t # u \/ i # j) => linkRules[t][i].id # linkRules[u][j].id

\* the pattern compiles and matches the name, letter case ignored
CompilesAndMatches(pattern, name) ==
  /\ pattern \notin {"[", "("}
  /\ <<pattern, name>> \in
       {<<"wall", "Wall-01">>, <<"SLAB", "Slab">>}
         \cup {<<"", n>> : n \in {"", "Wall-01", "Slab"}}

\* C22: the rule matcher is total and equals the reference: type_filter is
\* true iff the entity's type is in the rule's type set (false if the set
\* is absent); name_pattern is true iff the entity has a name and the
\* rule's pattern compiles and matches it case-insensitively; property_match
\* and any unknown rule type are always false.
C22_MatcherEqualsReference ==
  lastOp.op = "doesEntityMatchRule" =>
    LET e == lastOp.entity
        cfg == lastOp.rule.ruleConfig
        ty == lastOp.rule.ruleType
    IN /\ lastOp.result \in BOOLEAN
       /\ ty = "type_filter" =>
            (lastOp.result <=>
               ("ifcTypes" \in DOMAIN cfg /\ e.type \in cfg.ifcTypes))
       /\ ty = "name_pattern" =>
            (lastOp.result <=>
               /\ e.name # Undefined
               /\ "pattern" \in DOMAIN cfg
               /\ CompilesAndMatches(cfg.pattern, e.name))
       /\ ty \notin {"type_filter", "name_pattern"} => ~lastOp.result

\* C22 (amended): as above, but name_pattern is true iff the entity has a
\* non-empty name and the rule has a non-empty pattern that compiles and
\* matches the name case-insensitively: an empty name or an empty pattern
\* gives false.
C22_MatcherEqualsGuardedReference ==
  lastOp.op = "doesEntityMatchRule" =>
    LET e == lastOp.entity
        cfg == lastOp.rule.ruleConfig
        ty == lastOp.rule.ruleType
    IN /\ lastOp.result \in BOOLEAN
       /\ ty = "type_filter" =>
            (lastOp.result <=>
               ("ifcTypes" \in DOMAIN cfg /\ e.type \in cfg.ifcTypes))
       /\ ty = "name_pattern" =>
            (lastOp.result <=>
               /\ e.name \notin {Undefined, ""}
               /\ "pattern" \in DOMAIN cfg
               /\ cfg.pattern # ""
               /\ CompilesAndMatches(cfg.pattern, e.name))
       /\ ty \notin {"type_filter", "name_pattern"} => ~lastOp.result

\* a name_pattern rule with the empty pattern was evaluated on an entity
\* that has a name, and the matcher answered false
C22_Witness ==
  /\ lastOp.op = "doesEntityMatchRule"
  /\ lastOp.rule.ruleType = "name_pattern"
  /\ "pattern" \in DOMAIN lastOp.rule.ruleConfig
  /\ lastOp.rule.ruleConfig.pattern = ""
  /\ lastOp.entity.name = "Wall-01"
  /\ ~lastOp.result

\* the rules of a list whose id is not the given one, in their order
RECURSIVE OtherRules(_, _)
OtherRules(rules, ruleId) ==
  IF rules = <<>> THEN <<>>
  ELSE IF Head(rules).id = ruleId THEN OtherRules(Tail(rules), ruleId)
  ELSE <<Head(rules)>> \o OtherRules(Tail(rules), ruleId)

\* C24: after removeLinkRule(ruleId) no task holds a rule with that id,
\* every other rule stays on its task in its original relative order, and
\* every link is unchanged, including the links that the removed rule
\* created earlier.
C24_RemoveRuleOnly ==
  [][\A id \in RuleIds :
       (lastOp'.op = "removeLinkRule" /\ lastOp'.ruleId = id
          /\ removeLinkRule(id)) =>
         /\ \A t \in DOMAIN linkRules' :
              \A i \in DOMAIN linkRules'[t] : linkRules'[t][i].id # id
         /\ DOMAIN linkRules' = DOMAIN linkRules
         /\ \A t \in DOMAIN linkRules :
              linkRules'[t] = OtherRules(linkRules[t], id)
         /\ entityLinks' = entityLinks]_vars

\* r1 has just been removed from t1, which keeps its rule r2 and the link
\* of the wall that the rules created
C24_Witness ==
  /\ lastOp.op = "removeLinkRule"
  /\ lastOp.ruleId = "r1"
  /\ "t1" \in DOMAIN linkRules
  /\ Len(linkRules["t1"]) = 1
  /\ linkRules["t1"][1].id = "r2"
  /\ CountOf(LinksOf(entityLinks, "t1"), 1) = 1

\* C25: getActiveTasksOnDate(date) returns exactly the tasks of the
\* flattened tree, at every depth, with startDate <= date <= endDate, both
\* bounds inclusive, and changes no state of the engine.
C25_ActiveTasksInclusive ==
  [][(lastOp'.op = "getActiveTasksOnDate" /\ opParity' # opParity) =>
       LET result == lastOp'.result
           date == lastOp'.date
           flat == flattenTasks(tasks)
           Within(task) == task.startDate <= date /\ date <= task.endDate
       IN /\ \A i \in DOMAIN result :
               result[i] \in TreeNodes(tasks) /\ Within(result[i])
          /\ \A n \in TreeNodes(tasks) :
               Within(n) =>
                 Cardinality({i \in DOMAIN result : result[i] = n})
                   = Cardinality({i \in DOMAIN flat : flat[i] = n})
          /\ UNCHANGED <<tasks, taskMap, entityLinks, linkRules,
                         timelineState, animationFrameId, scheduled>>
          /\ notified' = <<>>]_vars

\* the query was made for a date that is the endDate of a root and the
\* startDate of a task two levels below it, and returned both
C25_Witness ==
  /\ lastOp.op = "getActiveTasksOnDate"
  /\ lastOp.date = 2
  /\ Len(lastOp.result) = 2
  /\ lastOp.result[1].taskId = "t1" /\ lastOp.result[1].endDate = 2
  /\ lastOp.result[2].taskId = "t3" /\ lastOp.result[2].startDate = 2
  /\ Len(flattenTasks(tasks)) = 3

\* the answer of the last parse and its document
Parsed == lastOp.result
ParsedDoc == lastOp.doc

\* task k is in the child list of task p
IsChildOf(k, p) ==
  \E c \in DOMAIN Parsed.children[p] : Parsed.children[p][c] = k

\* how often position k occurs among the roots and in all child lists
Placements(k) ==
  Cardinality({r \in DOMAIN Parsed.rootTasks : Parsed.rootTasks[r] = k})
    + Cardinality({pc \in {qc \in (DOMAIN Parsed.tasks) \X (1..Len(Parsed.tasks)) :
                             qc[2] \in DOMAIN Parsed.children[qc[1]]} :
                     Parsed.children[pc[1]][pc[2]] = k})

\* C26: flattening the tree returned by the parser yields every constructed
\* task exactly once: no task is lost, none appears twice, and no task is
\* both a root and a child or a child of two parents.
C26_FlattenIsEveryTaskOnce ==
  (lastOp.op = "parseXML" /\ Parsed.ok) =>
    LET flat == flattenParsed(Parsed.rootTasks, Parsed.children)
    IN /\ Len(flat) = Len(Parsed.tasks)
       /\ \A k \in DOMAIN Parsed.tasks :
            /\ Cardinality({i \in DOMAIN flat : flat[i] = k}) = 1
            /\ Placements(k) = 1

\* a document of three records was parsed into a root with a child that has
\* a child of its own
C26_Witness ==
  /\ lastOp.op = "parseXML"
  /\ Parsed.ok
  /\ Len(Parsed.tasks) = 3
  /\ Len(Parsed.rootTasks) = 1
  /\ \E p, k \in DOMAIN Parsed.tasks :
       /\ Parsed.children[Parsed.rootTasks[1]] = <<p>>
       /\ Parsed.children[p] = <<k>>

\* the outline number of p, followed by a dot, is a prefix of that of t
IsDotPrefix(p, t) ==
  /\ p # <<>>
  /\ Len(p) < Len(t)
  /\ \A i \in DOMAIN p : p[i] = t[i]

\* the parent that the outline gives record t of the document: the first
\* record one level up whose outline number is a dot-prefix, 0 if none
OutlineParent(records, t) ==
  LET Level(i) == IF records[i].OutlineLevel = 0 THEN 1
                  ELSE records[i].OutlineLevel
      Candidates ==
        {i \in DOMAIN records :
           /\ Level(t) > 1
           /\ Level(i) = Level(t) - 1
           /\ IsDotPrefix(records[i].OutlineNumber, records[t].OutlineNumber)}
  IN IF Candidates = {} THEN 0
     ELSE CHOOSE i \in Candidates : \A j \in Candidates : i <= j

\* the positions are in increasing order
Increasing(positions) ==
  \A i, j \in DOMAIN positions : i < j => positions[i] < positions[j]

\* C27: in the parsed tree a task T is a child of P iff T.outlineLevel > 1
\* and P is the first task in document order one level up whose outline
\* number followed by '.' is a prefix of T's; any other task is a root;
\* roots and children are in document order; so the records {1, level 1,
\* "1"} and {2, level 2, "1.1"} give one root 1 with one child 2.
C27_ParentByOutline ==
  (/\ lastOp.op = "parseXML"
   /\ ParsedDoc.project = "present"
   /\ \A i \in DOMAIN ParsedDoc.records : ParsedDoc.records[i].UID = i) =>
    /\ Parsed.ok
    /\ \A k \in DOMAIN Parsed.tasks :
         LET parent == OutlineParent(ParsedDoc.records, k)
         IN /\ \A p \in DOMAIN Parsed.tasks : IsChildOf(k, p) <=> p = parent
            /\ (\E r \in DOMAIN Parsed.rootTasks : Parsed.rootTasks[r] = k)
                 <=> parent = 0
    /\ Increasing(Parsed.rootTasks)
    /\ \A p \in DOMAIN Parsed.tasks : Increasing(Parsed.children[p])

\* C28: the parser constructs exactly one task for every record whose
\* identifier is present, identifier 0 included, and none for a record whose
\* identifier is missing.
C28_OneTaskPerIdentifier ==
  (lastOp.op = "parseXML" /\ Parsed.ok) =>
    \A i \in DOMAIN ParsedDoc.records :
      Cardinality({k \in DOMAIN Parsed.tasks : Parsed.tasks[k].record = i})
        = IF ParsedDoc.records[i].UID # NoUID THEN 1 ELSE 0

\* C29: a missing Project root is the only input condition that makes
\* parseXML fail: every document with a Project root gives a task tree,
\* whatever the field values of its records, and a failed parse returns no
\* partial tree.
C29_OnlyMissingRootFails ==
  lastOp.op = "parseXML" =>
    /\ ParsedDoc.project # "absent" => Parsed.ok
    /\ ~Parsed.ok => Parsed.tasks = <<>> /\ Parsed.rootTasks = <<>>

\* C30: every task produced by the parser has endDate >= startDate, also
\* when one of its dates was missing or unparseable and was replaced by the
\* current time.
C30_EndNotBeforeStart ==
  (lastOp.op = "parseXML" /\ Parsed.ok) =>
    \A k \in DOMAIN Parsed.tasks :
      Parsed.tasks[k].endDate >= Parsed.tasks[k].startDate

\* C31: a tick callback schedules its successor only if isPlaying is true
\* at the moment of rescheduling; the tick that clamps to endDate and
\* auto-pauses schedules no further callback.
C31_RescheduleOnlyWhilePlaying ==
  [][\A h \in DOMAIN scheduled :
       (lastOp'.op = "animate" /\ animate(h)) =>
         (DOMAIN scheduled' \ (DOMAIN scheduled \ {h}) # {} =>
            timelineState'.isPlaying)]_vars

\* C32: in every reachable state at most one tick callback is scheduled
\* with the host.
C32_AtMostOneCallback ==
  Cardinality(DOMAIN scheduled) <= 1

\* C33: whenever isPlaying is true and no tick is executing, a tick
\* callback is scheduled: no operation leaves the engine Playing with no
\* pending tick.
C33_PlayingHasPendingTick ==
  timelineState.isPlaying => DOMAIN scheduled # {}

C35_TickNeverMovesBack ==
  [][(lastOp'.op = "animate" /\ opParity' # opParity
        /\ timelineState.playbackSpeed > 0) =>
       timelineState'.currentDate >= timelineState.currentDate]_vars

\* C35 (amended): a tick that starts from a currentDate not after endDate
\* never sets an earlier date; a tick that runs from a currentDate after
\* endDate (set by setCurrentDate) sets currentDate back to endDate and
\* stops playback.
C35_TickMovesBackOnlyToEnd ==
  [][(lastOp'.op = "animate" /\ opParity' # opParity
        /\ timelineState.playbackSpeed > 0) =>
       /\ timelineState.currentDate <= timelineState.endDate =>
            timelineState'.currentDate >= timelineState.currentDate
       /\ (timelineState.currentDate > timelineState.endDate
             /\ lastOp'.ran) =>
            /\ timelineState'.currentDate = timelineState.endDate
            /\ ~timelineState'.isPlaying]_vars

\* a tick has run from a currentDate that was after endDate: it computed a
\* date further than any tick can go from endDate, set currentDate to
\* endDate and stopped
C35_Witness ==
  /\ lastOp.op = "animate"
  /\ lastOp.ran
  /\ lastOp.newDate > timelineState.endDate + MaxElapsed * MaxSpeed
  /\ timelineState.currentDate = timelineState.endDate
  /\ ~timelineState.isPlaying

\* C36: in every state reached from construction with loadTasks (of tasks
\* with startDate <= endDate), play, pause, reset, setPlaybackSpeed with
\* positive speeds and ticks, without setCurrentDate, the timeline has
\* startDate <= currentDate <= endDate.
C36_DateWithinWindow ==
  /\ timelineState.startDate <= timelineState.currentDate
  /\ timelineState.currentDate <= timelineState.endDate

\* a tick of one of two pending loops has gone past endDate and has been
\* clamped to it
C36_Witness ==
  /\ lastOp.op = "animate"
  /\ lastOp.ran
  /\ lastOp.newDate > timelineState.endDate
  /\ timelineState.currentDate = timelineState.endDate
  /\ timelineState.startDate < timelineState.endDate
  /\ Cardinality(DOMAIN scheduled) = 2


\* C37: a visualization recompute hands a status to the rendering
\* collaborator for a task iff that task currently has at least one linked
\* entity: tasks whose links were all removed are not processed, and every
\* task that has a link is processed.
C37_HandedIffLinked ==
  [][(world /\ lastOp'.op \in {"setCurrentDate", "reset"}
            /\ opParity' # opParity) =>
       \A i \in DOMAIN recomputed' :
         \A t \in DOMAIN taskMap' :
           t \in DOMAIN recomputed'[i].handed <=>
             (t \in DOMAIN entityLinks' /\ entityLinks'[t] # <<>>)]_vars

\* the half of C37 that the code keeps: every loaded task that has a link is
\* handed over by a recompute, with its links
C37_LinkedIsHanded ==
  [][(world /\ lastOp'.op \in {"setCurrentDate", "reset"}
            /\ opParity' # opParity) =>
       /\ recomputed' # <<>>
       /\ \A i \in DOMAIN recomputed' :
            \A t \in DOMAIN taskMap' :
              (t \in DOMAIN entityLinks' /\ entityLinks'[t] # <<>>) =>
                /\ t \in DOMAIN recomputed'[i].handed
                /\ recomputed'[i].handed[t].links = entityLinks'[t]]_vars


\* the ids of stored links or rules that no loaded task has
OrphanIds == (DOMAIN entityLinks \cup DOMAIN linkRules) \ DOMAIN taskMap

\* C38: loadTasks leaves the link map and the rule map unchanged, so links
\* and rules may refer to taskIds that no loaded task has; such links stay
\* stored and retrievable through getTaskLinks, a visualization recompute
\* skips them, and linkEntityToTask stores a link under a taskId that no
\* loaded task has.
C38_ReloadKeepsLinksAndRules ==
  /\ [][(lastOp'.op = "loadTasks" /\ opParity' # opParity) =>
          /\ entityLinks' = entityLinks
          /\ linkRules' = linkRules
          /\ \A t \in TaskIds :
               /\ getTaskLinks(t)' = getTaskLinks(t)
               /\ getTaskRules(t)' = getTaskRules(t)]_vars
  /\ [][(lastOp'.op \in {"setCurrentDate", "reset"}
           /\ opParity' # opParity) =>
          \A i \in DOMAIN recomputed' :
            DOMAIN recomputed'[i].handed \cap OrphanIds' = {}]_vars
  /\ [][(lastOp'.op = "linkEntityToTask" /\ opParity' # opParity) =>
          /\ linkExists(LinksOf(entityLinks', lastOp'.taskId), lastOp'.entity)
          /\ UNCHANGED <<tasks, taskMap>>]_vars

\* t2 was linked and given a rule, a schedule without t2 is loaded, the
\* link of t2 is still returned, and a recompute in a viewer with a world
\* has handed over t1 and not t2
C38_Witness ==
  /\ world
  /\ lastOp.op = "setCurrentDate"
  /\ "t2" \in OrphanIds
  /\ "t1" \in DOMAIN taskMap
  /\ linkExists(getTaskLinks("t2"), VisEntity)
  /\ getTaskRules("t2") # <<>>
  /\ Len(recomputed) = 1
  /\ DOMAIN recomputed[1].handed = {"t1"}


\* the ids of the tasks that the engine or the hook holds links or rules of
ViewedTaskIds ==
  TaskIds \cup DOMAIN entityLinks \cup DOMAIN linkRules
          \cup DOMAIN hook.taskLinks \cup DOMAIN hook.taskRules

\* C39: the link and rule maps of the use4D hook are a view of the engine's
\* state: after any sequence of linkEntitiesToTask, unlinkEntityFromTask,
\* addLinkRule, removeLinkRule and loadFromDatabase, the hook's taskLinks
\* map holds for every task the same links as the engine's link store and
\* its taskRules map the same rules as the engine's rule store.
C39_HookIsViewOfEngine ==
  \A t \in ViewedTaskIds :
    /\ LinksOf(hook.taskLinks, t) = LinksOf(entityLinks, t)
    /\ LinksOf(hook.taskRules, t) = LinksOf(linkRules, t)

====
